---- MODULE Spec2Model ----
(***************************************************************************)
(* A model of the gateway's credential pool and rotator                    *)
(* (src/src/auth/token_manager.js) and of the gateway frontend's retry     *)
(* wrapper and API-key gate (server module).                               *)
(*                                                                         *)
(* JavaScript runs one synchronous section at a time: a section starts at  *)
(* a request or at the resolution of an awaited promise and runs to the    *)
(* next await or return.  The variable `running` names the getToken call   *)
(* whose synchronous section is executing; every other operation waits     *)
(* until it is None.                                                       *)
(***************************************************************************)
EXTENDS Integers, Sequences, FiniteSets, TLC

\* ------------------------------------------------------------------ bounds
MaxTokens == 2      \* rows of accounts.json at start
NumCalls == 2       \* getToken calls that may be in flight together
MaxStarts == 2      \* getToken calls started per run
MaxEvents == 1      \* operations from outside getToken (mutations, admin, clock) per run
MaxCount == 2       \* largest requestCountPerToken explored
MaxHist == 6        \* operations recorded per run of a sequential scenario
MaxProbe == 5       \* steps of timestamp, expires_in and clock explored for isExpired
MaxRetries == 2     \* largest retry count explored for the 429 retry wrapper
MaxDeltas == 3      \* upstream deltas delivered to one chat request
MaxBeats == 1       \* heartbeat ticks during one chat request

\* ------------------------------------------------------- program constants
DefaultExpiresIn == 3599
MsPerSecond == 1000
ExpirySkewMs == 300000

ROUND_ROBIN == "round_robin"
QUOTA_EXHAUSTED == "quota_exhausted"
REQUEST_COUNT == "request_count"
RotationStrategy == {ROUND_ROBIN, QUOTA_EXHAUSTED, REQUEST_COUNT}

\* JavaScript's undefined for a numeric field, and the falsy test `!x`.
Undefined == 0 - 1
Falsy(x) == x = Undefined \/ x = 0

None == 0           \* no call is running; also "no object" (undefined / null)
Procs == 1..NumCalls
RTs == 1..(MaxTokens + 1)   \* refresh_token values; the last one only an admin can add

\* One clock step: long enough for a freshly refreshed token to expire.
TickMs == (DefaultExpiresIn + 1) * MsPerSecond
Now0 == TickMs

Max(a, b) == IF a >= b THEN a ELSE b

VARIABLES
  file,                 \* accounts.json: the rows, in order
  heap,                 \* the credential objects ever loaded; an object's id is its index
  tokens,               \* this.tokens: ids of the objects of the pool, in order
  currentIndex,         \* this.currentIndex (0-based)
  rotationStrategy,     \* this.rotationStrategy
  requestCountPerToken, \* this.requestCountPerToken
  tokenRequestCounts,   \* this.tokenRequestCounts, absent keys read as 0
  rotationCfg,          \* config.json's rotation section
  skipProjectIdFetch,   \* config.skipProjectIdFetch
  now,                  \* Date.now()
  calls,                \* each getToken call: its position and locals
  running,              \* the call whose synchronous section is executing, or None
  started,              \* getToken calls started so far
  events,               \* operations from outside getToken done so far
  hist,                 \* the rotator operations completed so far, in order
  retry,                \* one request's run of the 429 retry wrapper
  gate,                 \* one request at the API-key middleware
  probe,                \* one evaluation of isExpired
  resp,                 \* one chat request in its handler, and the response as written so far
  twin,                 \* the same request in a run whose upstream sends other signature values
  mem,                  \* the memory manager
  conv,                 \* one request body in the Gemini request converter
  sigc,                 \* the thought-signature caches
  quota                 \* the quota manager

tmVars == <<file, heap, tokens, currentIndex, rotationStrategy, requestCountPerToken,
            tokenRequestCounts, rotationCfg, skipProjectIdFetch, now, calls, running>>
budgetVars == <<started, events>>
sideVars == <<sigc, quota>>
backVars == <<resp, twin, mem, conv, sideVars>>
frontVars == <<retry, gate, probe, backVars>>

vars == <<tmVars, budgetVars, hist, frontVars>>

\* ------------------------------------------------------------ credentials
NoProject == 0
SomeProject == 1

\* sessionId: absent on a row, or the value generateSessionId() gave an object
NoSession == 0
SomeSession == 1

Row(rt, en, hq, pid, ts, ex) ==
  [refresh_token |-> rt, enable |-> en, hasQuota |-> hq, projectId |-> pid,
   timestamp |-> ts, expires_in |-> ex, sessionId |-> NoSession]

\* a variant of isExpired without the five-minute skew
IsExpiredNoSkew(token, t) ==
  IF Falsy(token.timestamp) \/ Falsy(token.expires_in) THEN TRUE
  ELSE t >= token.timestamp + (token.expires_in * MsPerSecond)

\* isExpired(token) at clock reading t
IsExpired(token, t) ==
  IF Falsy(token.timestamp) \/ Falsy(token.expires_in) THEN TRUE
  ELSE LET expiresAt == token.timestamp + (token.expires_in * MsPerSecond)
       IN  t >= expiresAt - ExpirySkewMs

\* allTokens.findIndex(t => t.refresh_token === rt), 1-based, 0 when absent
FindIndex(f, rt) ==
  IF \E k \in 1..Len(f) : f[k].refresh_token = rt
  THEN CHOOSE k \in 1..Len(f) :
         /\ f[k].refresh_token = rt
         /\ \A j \in 1..(k - 1) : f[j].refresh_token # rt
  ELSE 0

\* const { sessionId, ...tokenToSave } = tokenToUpdate
StripSession(obj) == [obj EXCEPT !.sessionId = NoSession]

\* saveToFile(tokenToUpdate): the row of the same refresh_token is overwritten
\* with the object less its sessionId
SaveOne(f, obj) ==
  LET k == FindIndex(f, obj.refresh_token)
  IN  IF k = 0 THEN f ELSE [f EXCEPT ![k] = StripSession(obj)]

\* saveToFile(): every object of the pool is written over its row, in pool order
RECURSIVE SaveAll(_, _)
SaveAll(f, objs) ==
  IF objs = <<>> THEN f ELSE SaveAll(SaveOne(f, Head(objs)), Tail(objs))

PoolObjects(h, toks) == [k \in 1..Len(toks) |-> h[toks[k]]]

\* disableToken(token): the rotator's state after it
DisableToken(h, f, toks, cur, id) ==
  LET h1 == [h EXCEPT ![id].enable = FALSE]
      f1 == SaveAll(f, PoolObjects(h1, toks))
      toks1 == SelectSeq(toks, LAMBDA x : h1[x].refresh_token # h1[id].refresh_token)
  IN  [heap |-> h1, file |-> f1, tokens |-> toks1,
       currentIndex |-> cur % Max(Len(toks1), 1)]

NoCounts == [rt \in RTs |-> 0]

\* Faulty variants of shouldRotate, used to show that the rotation properties
\* tell them from the real one.
\* never advances
ShouldRotateNever(strategy, token, counts, perToken) ==
  [rotate |-> FALSE, counts |-> counts]

\* advances after every request, whatever the strategy
ShouldRotateAlways(strategy, token, counts, perToken) ==
  [rotate |-> TRUE, counts |-> counts]

\* request_count advancing one request late
ShouldRotateLate(strategy, token, counts, perToken) ==
  LET count == counts[token.refresh_token] + 1
  IN  IF count > perToken
      THEN [rotate |-> TRUE, counts |-> [counts EXCEPT ![token.refresh_token] = 0]]
      ELSE [rotate |-> FALSE, counts |-> [counts EXCEPT ![token.refresh_token] = count]]

\* shouldRotate(token): the answer, and the counters after it
ShouldRotate(strategy, token, counts, perToken) ==
  CASE strategy = ROUND_ROBIN -> [rotate |-> TRUE, counts |-> counts]
    [] strategy = QUOTA_EXHAUSTED -> [rotate |-> token.hasQuota = FALSE, counts |-> counts]
    [] strategy = REQUEST_COUNT ->
         LET count == counts[token.refresh_token] + 1
         IN  IF count >= perToken
             THEN [rotate |-> TRUE, counts |-> [counts EXCEPT ![token.refresh_token] = 0]]
             ELSE [rotate |-> FALSE, counts |-> [counts EXCEPT ![token.refresh_token] = count]]
    [] OTHER -> [rotate |-> TRUE, counts |-> counts]

\* ---------------------------------------------------------------- getToken
IdleCall == [pc |-> "idle", totalTokens |-> 0, startIndex |-> 0, i |-> 0,
             index |-> 0, token |-> None, ret |-> None, fatal |-> FALSE]

\* this.tokens[index] for a 0-based index; None stands for undefined
TokenAt(toks, index) == IF index < Len(toks) THEN toks[index + 1] ELSE None

\* getToken is called: the empty-pool return, or the loop is set up
GetTokenEnter(p) ==
  /\ running = None
  /\ calls[p].pc = "idle"
  /\ running' = p
  /\ IF Len(tokens) = 0
     THEN calls' = [calls EXCEPT ![p] = [IdleCall EXCEPT !.pc = "returned"]]
     ELSE calls' = [calls EXCEPT ![p] =
                      [IdleCall EXCEPT !.pc = "loop", !.totalTokens = Len(tokens),
                                       !.startIndex = currentIndex]]
  /\ UNCHANGED <<file, heap, tokens, currentIndex, rotationStrategy, requestCountPerToken,
                 tokenRequestCounts, rotationCfg, skipProjectIdFetch, now>>

\* one pass of the for loop, up to the expiry test
LoopStep(p) ==
  /\ running = p
  /\ calls[p].pc = "loop"
  /\ LET c == calls[p]
         index == (c.startIndex + c.i) % c.totalTokens
         token == TokenAt(tokens, index)
     IN  IF c.i >= c.totalTokens
         THEN /\ calls' = [calls EXCEPT ![p].pc = "exhausted"]
              /\ UNCHANGED running
         ELSE IF token = None
         THEN \* token.hasQuota, or isExpired(token) and then the catch block's
              \* token.access_token, dereference undefined: getToken rejects
              /\ calls' = [calls EXCEPT ![p].pc = "threw", ![p].index = index,
                                        ![p].token = None]
              /\ UNCHANGED running
         ELSE IF rotationStrategy = QUOTA_EXHAUSTED /\ heap[token].hasQuota = FALSE
         THEN /\ calls' = [calls EXCEPT ![p].i = c.i + 1, ![p].index = index,
                                        ![p].token = token]
              /\ UNCHANGED running
         ELSE IF IsExpired(heap[token], now)
         THEN /\ calls' = [calls EXCEPT ![p].pc = "awaitRefresh", ![p].index = index,
                                        ![p].token = token]
              /\ running' = None
         ELSE /\ calls' = [calls EXCEPT ![p].pc = "project", ![p].index = index,
                                        ![p].token = token]
              /\ UNCHANGED running
  /\ UNCHANGED <<file, heap, tokens, currentIndex, rotationStrategy, requestCountPerToken,
                 tokenRequestCounts, rotationCfg, skipProjectIdFetch, now>>

\* the catch block's and the eligibility branch's disableToken(token), then
\* `if (this.tokens.length === 0) return null`, else the next pass
DisableAndContinue(p, isFatal) ==
  LET c == calls[p]
      d == DisableToken(heap, file, tokens, currentIndex, c.token)
      seen == c.fatal \/ isFatal
  IN  /\ heap' = d.heap
      /\ file' = d.file
      /\ tokens' = d.tokens
      /\ currentIndex' = d.currentIndex
      /\ running' = p
      /\ IF Len(d.tokens) = 0
         THEN calls' = [calls EXCEPT ![p].pc = "returned", ![p].ret = None, ![p].fatal = seen]
         ELSE calls' = [calls EXCEPT ![p].pc = "loop", ![p].i = c.i + 1, ![p].fatal = seen]

\* refreshToken(token) resolves: the token is updated and saved
RefreshOk(p) ==
  /\ running = None
  /\ calls[p].pc = "awaitRefresh"
  /\ LET id == calls[p].token
         h1 == [heap EXCEPT ![id].expires_in = DefaultExpiresIn, ![id].timestamp = now]
     IN  /\ heap' = h1
         /\ file' = SaveOne(file, h1[id])
  /\ calls' = [calls EXCEPT ![p].pc = "project"]
  /\ running' = p
  /\ UNCHANGED <<tokens, currentIndex, rotationStrategy, requestCountPerToken,
                 tokenRequestCounts, rotationCfg, skipProjectIdFetch, now>>

\* refreshToken(token) rejects with statusCode 400 or 403: the token is disabled
RefreshFatal(p) ==
  /\ running = None
  /\ calls[p].pc = "awaitRefresh"
  /\ DisableAndContinue(p, TRUE)
  /\ UNCHANGED <<rotationStrategy, requestCountPerToken, tokenRequestCounts, rotationCfg,
                 skipProjectIdFetch, now>>

\* refreshToken(token) rejects with any other status, or none: logged, next pass
RefreshOtherError(p) ==
  /\ running = None
  /\ calls[p].pc = "awaitRefresh"
  /\ calls' = [calls EXCEPT ![p].pc = "loop", ![p].i = calls[p].i + 1]
  /\ running' = p
  /\ UNCHANGED <<file, heap, tokens, currentIndex, rotationStrategy, requestCountPerToken,
                 tokenRequestCounts, rotationCfg, skipProjectIdFetch, now>>

\* `if (!token.projectId)`: nothing to do, a generated id, or the fetch is awaited
ProjectStep(p) ==
  /\ running = p
  /\ calls[p].pc = "project"
  /\ LET id == calls[p].token
     IN  IF heap[id].projectId # NoProject
         THEN /\ calls' = [calls EXCEPT ![p].pc = "commit"]
              /\ UNCHANGED <<heap, file, running>>
         ELSE IF skipProjectIdFetch
         THEN LET h1 == [heap EXCEPT ![id].projectId = SomeProject]
              IN  /\ heap' = h1
                  /\ file' = SaveOne(file, h1[id])
                  /\ calls' = [calls EXCEPT ![p].pc = "commit"]
                  /\ UNCHANGED running
         ELSE /\ calls' = [calls EXCEPT ![p].pc = "awaitProject"]
              /\ running' = None
              /\ UNCHANGED <<heap, file>>
  /\ UNCHANGED <<tokens, currentIndex, rotationStrategy, requestCountPerToken,
                 tokenRequestCounts, rotationCfg, skipProjectIdFetch, now>>

\* fetchProjectId(token) resolves with a project id: stored and saved
ProjectOk(p) ==
  /\ running = None
  /\ calls[p].pc = "awaitProject"
  /\ LET id == calls[p].token
         h1 == [heap EXCEPT ![id].projectId = SomeProject]
     IN  /\ heap' = h1
         /\ file' = SaveOne(file, h1[id])
  /\ calls' = [calls EXCEPT ![p].pc = "commit"]
  /\ running' = p
  /\ UNCHANGED <<tokens, currentIndex, rotationStrategy, requestCountPerToken,
                 tokenRequestCounts, rotationCfg, skipProjectIdFetch, now>>

\* fetchProjectId(token) resolves with undefined: not eligible, the token is disabled
ProjectIneligible(p) ==
  /\ running = None
  /\ calls[p].pc = "awaitProject"
  /\ DisableAndContinue(p, FALSE)
  /\ UNCHANGED <<rotationStrategy, requestCountPerToken, tokenRequestCounts, rotationCfg,
                 skipProjectIdFetch, now>>

\* fetchProjectId(token) rejects: logged, next pass
ProjectError(p) ==
  /\ running = None
  /\ calls[p].pc = "awaitProject"
  /\ calls' = [calls EXCEPT ![p].pc = "loop", ![p].i = calls[p].i + 1]
  /\ running' = p
  /\ UNCHANGED <<file, heap, tokens, currentIndex, rotationStrategy, requestCountPerToken,
                 tokenRequestCounts, rotationCfg, skipProjectIdFetch, now>>

\* currentIndex = index; the strategy's advance; return token
Commit(p) ==
  /\ running = p
  /\ calls[p].pc = "commit"
  /\ LET c == calls[p]
         r == ShouldRotate(rotationStrategy, heap[c.token], tokenRequestCounts,
                           requestCountPerToken)
     IN  /\ tokenRequestCounts' = r.counts
         /\ currentIndex' = IF r.rotate THEN (c.index + 1) % c.totalTokens ELSE c.index
         /\ calls' = [calls EXCEPT ![p].pc = "returned", ![p].ret = c.token]
  /\ UNCHANGED <<file, heap, tokens, rotationStrategy, requestCountPerToken, rotationCfg,
                 skipProjectIdFetch, now, running>>

\* after the loop: under quota_exhausted every hasQuota is reset and tokens[0]
\* is returned; otherwise null
Exhausted(p) ==
  /\ running = p
  /\ calls[p].pc = "exhausted"
  /\ IF rotationStrategy = QUOTA_EXHAUSTED
     THEN LET ids == {tokens[k] : k \in 1..Len(tokens)}
              h1 == [k \in 1..Len(heap) |->
                       IF k \in ids THEN [heap[k] EXCEPT !.hasQuota = TRUE] ELSE heap[k]]
          IN  /\ heap' = h1
              /\ file' = SaveAll(file, PoolObjects(h1, tokens))
              /\ calls' = [calls EXCEPT ![p].pc = "returned",
                                        ![p].ret = TokenAt(tokens, 0)]
     ELSE /\ calls' = [calls EXCEPT ![p].pc = "returned", ![p].ret = None]
          /\ UNCHANGED <<heap, file>>
  /\ UNCHANGED <<tokens, currentIndex, rotationStrategy, requestCountPerToken,
                 tokenRequestCounts, rotationCfg, skipProjectIdFetch, now, running>>

\* the caller's continuation takes the result (or the rejection)
Consume(p) ==
  /\ running = p
  /\ calls[p].pc \in {"returned", "threw"}
  /\ calls' = [calls EXCEPT ![p] = IdleCall]
  /\ running' = None
  /\ UNCHANGED <<file, heap, tokens, currentIndex, rotationStrategy, requestCountPerToken,
                 tokenRequestCounts, rotationCfg, skipProjectIdFetch, now>>

\* ------------------------------------------------ state mutations from outside
UNCHANGED_CONFIG == UNCHANGED <<rotationStrategy, requestCountPerToken, rotationCfg,
                                skipProjectIdFetch>>

PoolIds == {tokens[k] : k \in 1..Len(tokens)}

\* an operation from outside getToken runs when no synchronous section does
OutsideGuard == running = None

\* disableCurrentToken(token) / disableToken(token) on a credential of the pool
DisableTokenCall(id) ==
  /\ OutsideGuard
  /\ id \in PoolIds
  /\ LET d == DisableToken(heap, file, tokens, currentIndex, id)
     IN  /\ heap' = d.heap
         /\ file' = d.file
         /\ tokens' = d.tokens
         /\ currentIndex' = d.currentIndex
  /\ UNCHANGED_CONFIG
  /\ UNCHANGED <<tokenRequestCounts, now, calls, running>>

\* markQuotaExhausted(token)
MarkQuotaExhausted(id) ==
  /\ OutsideGuard
  /\ id \in PoolIds
  /\ LET h1 == [heap EXCEPT ![id].hasQuota = FALSE]
     IN  /\ heap' = h1
         /\ file' = SaveOne(file, h1[id])
  /\ currentIndex' = IF rotationStrategy = QUOTA_EXHAUSTED
                     THEN (currentIndex + 1) % Max(Len(tokens), 1)
                     ELSE currentIndex
  /\ UNCHANGED_CONFIG
  /\ UNCHANGED <<tokens, tokenRequestCounts, now, calls, running>>

\* restoreQuota(token)
RestoreQuota(id) ==
  /\ OutsideGuard
  /\ id \in PoolIds
  /\ LET h1 == [heap EXCEPT ![id].hasQuota = TRUE]
     IN  /\ heap' = h1
         /\ file' = SaveOne(file, h1[id])
  /\ UNCHANGED_CONFIG
  /\ UNCHANGED <<tokens, currentIndex, tokenRequestCounts, now, calls, running>>

\* ------------------------------------------------------------------ admin
NoRotationCfg == [present |-> FALSE, strategy |-> "", requestCount |-> 0]
DefaultRequestCount == 10
ConstructorRequestCount == 50

\* loadRotationConfig(): the strategy and the count after it
LoadRotationConfig(cfg, strategy, perToken) ==
  IF cfg.present
  THEN [strategy |-> IF cfg.strategy = "" THEN ROUND_ROBIN ELSE cfg.strategy,
        requestCount |-> IF cfg.requestCount = 0 THEN DefaultRequestCount
                         ELSE cfg.requestCount]
  ELSE [strategy |-> strategy, requestCount |-> perToken]

\* the rows initialize() loads: tokenArray.filter(token => token.enable !== false)
EnabledRows(f) == SelectSeq(f, LAMBDA r : r.enable # FALSE)

\* .map(token => ({ ...token, sessionId: generateSessionId() }))
Loaded(f) ==
  LET rows == EnabledRows(f)
  IN  [k \in 1..Len(rows) |-> [rows[k] EXCEPT !.sessionId = SomeSession]]

\* the objects a suspended call still holds are kept; the rest of the heap is
\* unreachable once the pool is replaced
HeldIds == {calls[p].token : p \in {q \in Procs : calls[q].pc # "idle"}} \ {None}

\* initialize(): the pool is rebuilt from the file with new objects
Initialize(f) ==
  LET rows == Loaded(f)
      base == IF HeldIds = {} THEN <<>> ELSE heap
      lc == LoadRotationConfig(rotationCfg, rotationStrategy, requestCountPerToken)
  IN  /\ heap' = base \o rows
      /\ tokens' = [k \in 1..Len(rows) |-> Len(base) + k]
      /\ currentIndex' = 0
      /\ tokenRequestCounts' = NoCounts
      /\ rotationStrategy' = lc.strategy
      /\ requestCountPerToken' = lc.requestCount


\* reload()
Reload ==
  /\ OutsideGuard
  /\ Initialize(file)
  /\ UNCHANGED <<file, rotationCfg, skipProjectIdFetch, now, calls, running>>

\* addToken(tokenData) as POST /admin/tokens calls it
AddToken(rt, en, pid) ==
  /\ OutsideGuard
  /\ Len(file) <= MaxTokens
  /\ LET newToken == Row(rt, en, TRUE, pid, now, DefaultExpiresIn)
         f1 == Append(file, newToken)
     IN  /\ file' = f1
         /\ Initialize(f1)
  /\ UNCHANGED <<rotationCfg, skipProjectIdFetch, now, calls, running>>

\* updateToken(refreshToken, updates) with updates = {enable: en}
UpdateToken(rt, en) ==
  /\ OutsideGuard
  /\ FindIndex(file, rt) # 0
  /\ LET f1 == [file EXCEPT ![FindIndex(file, rt)].enable = en]
     IN  /\ file' = f1
         /\ Initialize(f1)
  /\ UNCHANGED <<rotationCfg, skipProjectIdFetch, now, calls, running>>

\* deleteToken(refreshToken)
DeleteToken(rt) ==
  /\ OutsideGuard
  /\ FindIndex(file, rt) # 0
  /\ LET f1 == SelectSeq(file, LAMBDA r : r.refresh_token # rt)
     IN  /\ file' = f1
         /\ Initialize(f1)
  /\ UNCHANGED <<rotationCfg, skipProjectIdFetch, now, calls, running>>

\* updateRotationConfig(strategy, requestCount): "" and 0 stand for an absent argument
UpdateRotationConfig(strategy, requestCount) ==
  /\ rotationStrategy' = IF strategy # "" /\ strategy \in RotationStrategy
                         THEN strategy ELSE rotationStrategy
  /\ requestCountPerToken' = IF requestCount # 0 /\ requestCount > 0
                             THEN requestCount ELSE requestCountPerToken
  /\ tokenRequestCounts' = NoCounts

\* PUT /admin/rotation: the rotator is updated and config.json saved
PutRotation(strategy, requestCount) ==
  /\ OutsideGuard
  /\ UpdateRotationConfig(strategy, requestCount)
  /\ rotationCfg' = [present |-> TRUE,
                     strategy |-> IF strategy # "" THEN strategy ELSE rotationCfg.strategy,
                     requestCount |-> IF requestCount # 0 THEN requestCount
                                      ELSE rotationCfg.requestCount]
  /\ UNCHANGED <<file, heap, tokens, currentIndex, skipProjectIdFetch, now, calls,
                 running, started>>

\* the clock advances while nothing runs
Tick ==
  /\ OutsideGuard
  /\ now' = now + TickMs
  /\ UNCHANGED_CONFIG
  /\ UNCHANGED <<file, heap, tokens, currentIndex, tokenRequestCounts, calls, running>>

\* ------------------------------------------------------------------- Init
\* accounts.json at start: n enabled rows with refresh tokens 1..n, each fresh or
\* stale, with or without a project id
StartRows(n) ==
  {f \in [1..n -> [refresh_token : 1..n, enable : {TRUE}, hasQuota : {TRUE},
                   projectId : {NoProject, SomeProject}, timestamp : {0, Now0},
                   expires_in : {DefaultExpiresIn}, sessionId : {NoSession}]] :
     \A k \in 1..n : f[k].refresh_token = k}

StartRotationCfgs ==
  {[present |-> TRUE, strategy |-> s, requestCount |-> MaxCount] : s \in RotationStrategy}

\* the constructor: defaults, then initialize() on accounts.json = f with
\* config.json's rotation section = cfg
Constructed(f, cfg) ==
  /\ file = f
  /\ rotationCfg = cfg
  /\ now = Now0
  /\ heap = Loaded(f)
  /\ tokens = [k \in 1..Len(Loaded(f)) |-> k]
  /\ tokenRequestCounts = NoCounts
  /\ LET lc == LoadRotationConfig(cfg, ROUND_ROBIN, ConstructorRequestCount)
     IN  /\ rotationStrategy = lc.strategy
         /\ requestCountPerToken = lc.requestCount
  /\ calls = [p \in Procs |-> IdleCall]
  /\ running = None

TMInit ==
  /\ \E f \in StartRows(MaxTokens), cfg \in StartRotationCfgs : Constructed(f, cfg)
  /\ skipProjectIdFetch \in BOOLEAN
  /\ currentIndex = 0

\* ------------------------------------------------ the rotator under concurrency
\* Any interleaving of up to MaxStarts getToken calls with up to MaxEvents
\* operations from outside.
NoRetry == [pc |-> "off"]
NoGate == [pc |-> "off"]
NoProbe == [pc |-> "off"]
NoResp == [pc |-> "off"]
NoMem == [pc |-> "off"]
NoConv == [pc |-> "off"]
NoSigc == [pc |-> "off"]
NoQuota == [pc |-> "off"]
SideOff == sigc = NoSigc /\ quota = NoQuota
BackOff == resp = NoResp /\ twin = NoResp /\ mem = NoMem /\ conv = NoConv /\ SideOff
FrontOff == retry = NoRetry /\ gate = NoGate /\ probe = NoProbe /\ BackOff

Init ==
  /\ TMInit
  /\ started = 0
  /\ events = 0
  /\ hist = <<>>
  /\ FrontOff

\* a step of the rotator alone
Quiet == UNCHANGED <<budgetVars, hist, frontVars>>

\* a request handler calls getToken
StartCall(p) ==
  /\ started < MaxStarts
  /\ started' = started + 1
  /\ GetTokenEnter(p)
  /\ UNCHANGED <<events, hist, frontVars>>

\* an operation from outside getToken is counted
Event ==
  /\ events < MaxEvents
  /\ events' = events + 1
  /\ UNCHANGED <<started, hist, frontVars>>

Next ==
  \/ \E p \in Procs : StartCall(p)
  \/ \E p \in Procs : LoopStep(p) /\ Quiet
  \/ \E p \in Procs : RefreshOk(p) /\ Quiet
  \/ \E p \in Procs : RefreshFatal(p) /\ Quiet
  \/ \E p \in Procs : RefreshOtherError(p) /\ Quiet
  \/ \E p \in Procs : ProjectStep(p) /\ Quiet
  \/ \E p \in Procs : ProjectOk(p) /\ Quiet
  \/ \E p \in Procs : ProjectIneligible(p) /\ Quiet
  \/ \E p \in Procs : ProjectError(p) /\ Quiet
  \/ \E p \in Procs : Commit(p) /\ Quiet
  \/ \E p \in Procs : Exhausted(p) /\ Quiet
  \/ \E p \in Procs : Consume(p) /\ Quiet
  \/ \E id \in 1..Len(heap) : DisableTokenCall(id) /\ Event
  \/ \E id \in 1..Len(heap) : MarkQuotaExhausted(id) /\ Event
  \/ \E id \in 1..Len(heap) : RestoreQuota(id) /\ Event
  \/ Reload /\ Event
  \/ \E rt \in RTs, en \in BOOLEAN : AddToken(rt, en, SomeProject) /\ Event
  \/ \E rt \in RTs, en \in BOOLEAN : UpdateToken(rt, en) /\ Event
  \/ \E rt \in RTs : DeleteToken(rt) /\ Event
  \/ \E s \in RotationStrategy \cup {""}, k \in 0..MaxCount : PutRotation(s, k) /\ Event
  \/ Tick /\ Event

Spec == Init /\ [][Next]_vars

\* ---------------------------------------------------- properties of the rotator
Terminal(p) == calls[p].pc \in {"returned", "threw"}
ReturnedToken(p) == calls[p].pc = "returned" /\ calls[p].ret # None

\* the row of accounts.json a credential object is saved to has enable = false
DisabledOnDisk(obj) ==
  /\ FindIndex(file, obj.refresh_token) # 0
  /\ file[FindIndex(file, obj.refresh_token)].enable = FALSE

\* a credential getToken can return without awaiting anything
Ready(obj) ==
  /\ ~IsExpired(obj, now)
  /\ obj.projectId # NoProject
  /\ (rotationStrategy = QUOTA_EXHAUSTED => obj.hasQuota # FALSE)

\* C1: getToken never returns a credential whose enable flag is false, whatever
\* ran while the call was suspended at an await.
C1_NeverReturnsDisabled ==
  \A p \in Procs :
    ReturnedToken(p) =>
      /\ heap[calls[p].ret].enable # FALSE
      /\ ~DisabledOnDisk(heap[calls[p].ret])

\* C2: a getToken call in which a refresh failed with 400 or 403 does not throw,
\* leaves no credential it disabled in the pool, and returns a credential
\* whenever the pool still holds a ready one.
C2_FatalRefreshFailsOver ==
  \A p \in Procs :
    (calls[p].fatal /\ Terminal(p)) =>
      /\ calls[p].pc = "returned"
      /\ (calls[p].ret = None => \A id \in PoolIds : ~Ready(heap[id]))

\* C3: whenever no synchronous section is running and the pool is not empty,
\* currentIndex is an index of the pool.
C3_CurrentIndexInRange ==
  (running = None /\ Len(tokens) > 0) => currentIndex \in 0..(Len(tokens) - 1)

\* C4: every credential getToken returns is, at the return, not expired and has
\* a project id.
C4_ReturnedIsLive ==
  \A p \in Procs :
    ReturnedToken(p) =>
      /\ ~IsExpired(heap[calls[p].ret], now)
      /\ heap[calls[p].ret].projectId # NoProject

\* ------------------------------------------------- one caller, calls in sequence
\* what a finished call gave its caller: the credential's refresh_token, 0 for
\* null, or a rejection
Outcome(p) ==
  IF calls[p].pc = "threw" THEN [op |-> "throw", rt |-> 0]
  ELSE [op |-> "get",
        rt |-> IF calls[p].ret = None THEN 0 ELSE heap[calls[p].ret].refresh_token]

\* the caller takes the result, and the result is recorded
ConsumeRecord(p) ==
  /\ Consume(p)
  /\ hist' = Append(hist, Outcome(p))
  /\ UNCHANGED <<budgetVars, frontVars>>

\* how often refresh_token rt was returned
Count(h, rt) == Cardinality({k \in 1..Len(h) : h[k].op = "get" /\ h[k].rt = rt})

\* ------------------------------------------ round_robin over live credentials
\* 1..MaxTokens credentials, each expired or not, with or without a project id;
\* every refresh and every project-id fetch succeeds.  One caller makes
\* 10 * N calls in sequence, starting at any currentIndex.
RRInit ==
  /\ \E n \in 1..MaxTokens :
       \E f \in StartRows(n) :
         /\ Constructed(f, [present |-> TRUE, strategy |-> ROUND_ROBIN, requestCount |-> 0])
         /\ currentIndex \in 0..(n - 1)
  /\ skipProjectIdFetch \in BOOLEAN
  /\ started = 0
  /\ events = 0
  /\ hist = <<>>
  /\ FrontOff

RRNext ==
  \/ GetTokenEnter(1) /\ Len(hist) < 10 * Len(tokens) /\ Quiet
  \/ LoopStep(1) /\ Quiet
  \/ RefreshOk(1) /\ Quiet
  \/ ProjectStep(1) /\ Quiet
  \/ ProjectOk(1) /\ Quiet
  \/ Commit(1) /\ Quiet
  \/ ConsumeRecord(1)

SpecRoundRobin == RRInit /\ [][RRNext]_vars

\* C5: under round_robin with N live credentials, after 10 * N successive calls
\* every credential was returned at least 8 times, and each call that returns a
\* credential leaves currentIndex one past it.
C5_RoundRobinFair ==
  /\ Len(hist) = 10 * Len(tokens) =>
       \A id \in PoolIds : Count(hist, heap[id].refresh_token) >= 8
  /\ ReturnedToken(1) =>
       /\ TokenAt(tokens, calls[1].index) = calls[1].ret
       /\ currentIndex = (calls[1].index + 1) % Len(tokens)

C5_Witness ==
  /\ Len(tokens) = MaxTokens
  /\ Len(hist) = 10 * Len(tokens)
  /\ \A id \in PoolIds : Count(hist, heap[id].refresh_token) >= 8

\* --------------------------------------- quota_exhausted over three credentials
\* Three live ready credentials c0, c1, c2 (refresh tokens 1, 2, 3) of which
\* only c1 has hasQuota = false, currentIndex 0.  One caller calls getToken and
\* markQuotaExhausted in any order.
ReadyRow(rt, hq) == Row(rt, TRUE, hq, SomeProject, Now0, DefaultExpiresIn)

QuotaInit ==
  /\ Constructed(<<ReadyRow(1, TRUE), ReadyRow(2, FALSE), ReadyRow(3, TRUE)>>,
                 [present |-> TRUE, strategy |-> QUOTA_EXHAUSTED, requestCount |-> 0])
  /\ currentIndex = 0
  /\ skipProjectIdFetch = FALSE
  /\ started = 0
  /\ events = 0
  /\ hist = <<>>
  /\ FrontOff

\* markQuotaExhausted(token) by the caller, recorded
MarkRecord(id) ==
  /\ Len(hist) < MaxHist
  /\ MarkQuotaExhausted(id)
  /\ hist' = Append(hist, [op |-> "mark", rt |-> heap[id].refresh_token])
  /\ UNCHANGED <<budgetVars, frontVars>>

QuotaNext ==
  \/ GetTokenEnter(1) /\ Len(hist) < MaxHist /\ Quiet
  \/ LoopStep(1) /\ Quiet
  \/ ProjectStep(1) /\ Quiet
  \/ Commit(1) /\ Quiet
  \/ Exhausted(1) /\ Quiet
  \/ ConsumeRecord(1)
  \/ \E id \in 1..Len(heap) : MarkRecord(id)

SpecQuota == QuotaInit /\ [][QuotaNext]_vars

\* the scenario's operations: getToken, getToken, markQuotaExhausted(c0),
\* getToken, markQuotaExhausted(c2), getToken
QuotaScript == <<"get", "get", "mark", "get", "mark", "get">>
QuotaMarked == <<0, 0, 1, 0, 3, 0>>

\* the run so far is a prefix of the scenario
OnQuotaScript ==
  /\ Len(hist) <= Len(QuotaScript)
  /\ \A k \in 1..Len(hist) :
       /\ hist[k].op = QuotaScript[k]
       /\ hist[k].op = "mark" => hist[k].rt = QuotaMarked[k]

\* every getToken of the run so far returned what `expected` says
QuotaResults(expected) ==
  \A k \in 1..Len(hist) : hist[k].op = "get" => hist[k].rt = expected[k]

AllHaveQuota == \A id \in PoolIds : heap[id].hasQuota = TRUE

\* C6, as claimed: the four getToken calls of the scenario return c0, c2, c2, c0,
\* and the last one has reset every hasQuota to true.
C6_QuotaScenarioClaimed ==
  OnQuotaScript =>
    /\ QuotaResults(<<1, 3, 0, 3, 0, 1>>)
    /\ Len(hist) = Len(QuotaScript) => AllHaveQuota

\* C6, amended: they return c0, c0, c2, c0: the second call returns c0 again,
\* as nothing was marked exhausted between the first two calls.
C6_QuotaScenario ==
  OnQuotaScript =>
    /\ QuotaResults(<<1, 1, 0, 3, 0, 1>>)
    /\ Len(hist) = Len(QuotaScript) => AllHaveQuota

C6_Witness ==
  /\ OnQuotaScript
  /\ Len(hist) = Len(QuotaScript)
  /\ hist[6] = [op |-> "get", rt |-> 1]
  /\ AllHaveQuota

\* ------------------------------------------------- request_count, one caller
\* 1..MaxTokens credentials, each expired or not, with or without a project id,
\* requestCountPerToken in 1..MaxCount.  One caller calls getToken in sequence;
\* a refresh or a project-id fetch may succeed or fail in each way.
CountInit ==
  /\ \E n \in 1..MaxTokens, k \in 1..MaxCount :
       \E f \in StartRows(n) :
         Constructed(f, [present |-> TRUE, strategy |-> REQUEST_COUNT, requestCount |-> k])
  /\ currentIndex = 0
  /\ skipProjectIdFetch \in BOOLEAN
  /\ started = 0
  /\ events = 0
  /\ hist = <<>>
  /\ FrontOff

\* a failed refresh or project-id fetch of the scanned credential is recorded
Failed(p) ==
  /\ hist' = Append(hist, [op |-> "fail", rt |-> heap[calls[p].token].refresh_token])
  /\ UNCHANGED <<budgetVars, frontVars>>

CountNext ==
  \/ GetTokenEnter(1) /\ Len(hist) < MaxHist /\ Quiet
  \/ LoopStep(1) /\ Quiet
  \/ RefreshOk(1) /\ Quiet
  \/ RefreshFatal(1) /\ Failed(1)
  \/ RefreshOtherError(1) /\ Failed(1)
  \/ ProjectStep(1) /\ Quiet
  \/ ProjectOk(1) /\ Quiet
  \/ ProjectIneligible(1) /\ Failed(1)
  \/ ProjectError(1) /\ Failed(1)
  \/ Commit(1) /\ Quiet
  \/ Exhausted(1) /\ Quiet
  \/ ConsumeRecord(1)

SpecCount == CountInit /\ [][CountNext]_vars

\* no refresh or fetch failed so far: every call returned a credential
CleanRun == \A k \in 1..Len(hist) : hist[k].op = "get" /\ hist[k].rt # 0

\* every counter is in [0, requestCountPerToken)
CountersInRange ==
  \A rt \in RTs : tokenRequestCounts[rt] \in 0..(requestCountPerToken - 1)

\* the k-th call returned the credential at pool position ((k - 1) div K) mod N:
\* each credential K times in a row, then the next one
RunsOfK ==
  \A k \in 1..Len(hist) :
    hist[k].rt = (((k - 1) \div requestCountPerToken) % Len(tokens)) + 1

\* a step changes a credential's counter only by returning that credential, and
\* then by one, back to 0 at requestCountPerToken
CounterStep ==
  \A rt \in RTs :
    tokenRequestCounts'[rt] # tokenRequestCounts[rt] =>
      /\ calls[1].pc = "commit"
      /\ calls'[1].pc = "returned"
      /\ calls'[1].ret # None
      /\ heap[calls'[1].ret].refresh_token = rt
      /\ tokenRequestCounts'[rt] = (tokenRequestCounts[rt] + 1) % requestCountPerToken

\* a step that returns a credential counts it
ReturnCounts ==
  (calls[1].pc = "commit" /\ calls'[1].pc = "returned") =>
    LET rt == heap[calls'[1].ret].refresh_token
    IN  tokenRequestCounts'[rt] = (tokenRequestCounts[rt] + 1) % requestCountPerToken

\* C7: under request_count with K = requestCountPerToken, calls over live ready
\* credentials return each credential exactly K times in a row before the next;
\* a counter moves only when its credential is returned, once per return, and
\* stays in [0, K); skipped and disabled credentials' counters do not move.
C7_RequestCount ==
  /\ [](CountersInRange /\ (CleanRun => RunsOfK))
  /\ [][CounterStep /\ ReturnCounts]_vars

C7_Witness ==
  /\ requestCountPerToken = MaxCount
  /\ Len(tokens) = MaxTokens
  /\ CleanRun
  /\ Len(hist) > MaxCount
  /\ hist[MaxCount].rt = 1
  /\ hist[MaxCount + 1].rt = 2

\* --------------------------------------------------------- isExpired alone
\* One credential whose timestamp and expires_in are each missing, 0 or a
\* multiple of a step up to MaxProbe steps, read at a clock in the same range.
StepMs == 100 * MsPerSecond
Stamps == {Undefined} \cup {k * StepMs : k \in 0..MaxProbe}
Lifetimes == {Undefined, DefaultExpiresIn} \cup {k * 100 : k \in 0..MaxProbe}
Clock == {k * StepMs : k \in 0..MaxProbe}

ExpiryInit ==
  /\ \E ts \in Stamps, ex \in Lifetimes :
       /\ file = <<Row(1, TRUE, TRUE, NoProject, ts, ex)>>
       /\ heap = Loaded(file)
  /\ tokens = <<1>>
  /\ now \in Clock
  /\ currentIndex = 0
  /\ rotationStrategy = ROUND_ROBIN
  /\ requestCountPerToken = ConstructorRequestCount
  /\ tokenRequestCounts = NoCounts
  /\ rotationCfg = NoRotationCfg
  /\ skipProjectIdFetch = FALSE
  /\ calls = [p \in Procs |-> IdleCall]
  /\ running = None
  /\ started = 0
  /\ events = 0
  /\ hist = <<>>
  /\ FrontOff

\* isExpired(this.tokens[0]) is evaluated
IsExpiredCall ==
  /\ probe = NoProbe
  /\ probe' = [pc |-> "done", result |-> IsExpired(heap[tokens[1]], now)]
  /\ UNCHANGED <<tmVars, budgetVars, hist, retry, gate, backVars>>

ExpiryNext == IsExpiredCall

SpecExpiry == ExpiryInit /\ [][ExpiryNext]_vars

\* now >= timestamp + (expires_in - 300) * 1000 in JavaScript arithmetic: with a
\* missing operand the sum is NaN and the comparison is false
AtOrPastSkewedExpiry(token, t) ==
  IF token.timestamp = Undefined \/ token.expires_in = Undefined THEN FALSE
  ELSE t >= token.timestamp + ((token.expires_in - 300) * 1000)

\* C8 as stated: for every now, timestamp and expires_in in range, 0 and
\* missing included, isExpired is true iff
\* now >= timestamp + (expires_in - 300) * 1000.
C8_ExpiredIffPastSkew ==
  probe.pc = "done" =>
    (probe.result <=> AtOrPastSkewedExpiry(heap[tokens[1]], now))

\* C8: isExpired is true iff timestamp or expires_in is missing or 0, or
\* now >= timestamp + (expires_in - 300) * 1000.
C8_ExpiredIffMissingOrPastSkew ==
  probe.pc = "done" =>
    LET token == heap[tokens[1]]
    IN  probe.result <=>
          \/ Falsy(token.timestamp)
          \/ Falsy(token.expires_in)
          \/ AtOrPastSkewedExpiry(token, now)

C8_Witness ==
  /\ probe.pc = "done"
  /\ probe.result
  /\ heap[tokens[1]].timestamp = 0
  /\ heap[tokens[1]].expires_in = DefaultExpiresIn
  /\ ~AtOrPastSkewedExpiry(heap[tokens[1]], now)

\* ------------------------------------------------------ the API-key middleware
\* Strings are sequences of characters.
StartsWith(s, prefix) ==
  Len(s) >= Len(prefix) /\ SubSeq(s, 1, Len(prefix)) = prefix

\* s.slice(n)
Slice(s, n) == SubSeq(s, n + 1, Len(s))

V1Prefix == <<"/", "v", "1", "/">>
BearerPrefix == <<"B", "e", "a", "r", "e", "r", " ">>

\* a header that is not sent (undefined) and config.security.apiKey = null:
\* both falsy, as the empty string is
Absent == <<>>

TheKey == <<"k">>
WrongKey == <<"x">>
ApiKeys == {Absent, TheKey}
HeaderValues == {Absent, TheKey, WrongKey, BearerPrefix \o TheKey, BearerPrefix \o WrongKey}

PathModels == <<"/", "v", "1", "/", "m", "o", "d", "e", "l", "s">>
PathMemory == <<"/", "v", "1", "/", "m", "e", "m", "o", "r", "y">>
PathHealth == <<"/", "h", "e", "a", "l", "t", "h">>
PathChat == <<"/", "v", "1", "/", "c", "h", "a", "t", "/", "c", "o", "m", "p", "l", "e", "t", "i", "o", "n", "s">>
PathMessages == <<"/", "v", "1", "/", "m", "e", "s", "s", "a", "g", "e", "s">>
PathGeminiModels == <<"/", "v", "1", "b", "e", "t", "a", "/", "m", "o", "d", "e", "l", "s">>
PathGeminiModel == <<"/", "v", "1", "b", "e", "t", "a", "/", "m", "o", "d", "e", "l", "s", "/", "m">>
PathGenerate == <<"/", "v", "1", "b", "e", "t", "a", "/", "m", "o", "d", "e", "l", "s", "/", "m", ":", "g", "e", "n", "e", "r", "a", "t", "e", "C", "o", "n", "t", "e", "n", "t">>
PathStreamGenerate == <<"/", "v", "1", "b", "e", "t", "a", "/", "m", "o", "d", "e", "l", "s", "/", "m", ":", "s", "t", "r", "e", "a", "m", "G", "e", "n", "e", "r", "a", "t", "e", "C", "o", "n", "t", "e", "n", "t">>
PathUnknown == <<"/", "v", "1", "/", "o", "t", "h", "e", "r">>
Paths == {PathModels, PathMemory, PathHealth, PathChat, PathMessages, PathGeminiModels,
          PathGeminiModel, PathGenerate, PathStreamGenerate, PathUnknown}

Requests ==
  [method : {"GET", "POST"}, path : Paths, authorization : HeaderValues,
   xApiKey : HeaderValues, messages : BOOLEAN]

\* the middleware's verdict on a request: TRUE when it calls next()
ApiKeyPasses(apiKey, req) ==
  IF StartsWith(req.path, V1Prefix) /\ apiKey # Absent
  THEN LET authHeader == IF req.authorization # Absent THEN req.authorization
                         ELSE req.xApiKey
           providedKey == IF authHeader # Absent /\ StartsWith(authHeader, BearerPrefix)
                          THEN Slice(authHeader, Len(BearerPrefix))
                          ELSE authHeader
       IN  providedKey = apiKey
  ELSE TRUE

\* the routes whose handler takes a credential: method and path
TokenRoutes ==
  {[method |-> "POST", path |-> PathChat], [method |-> "POST", path |-> PathMessages],
   [method |-> "POST", path |-> PathGenerate], [method |-> "POST", path |-> PathStreamGenerate]}

\* the routes whose handler answers without the rotator
PlainRoutes ==
  {[method |-> "GET", path |-> PathModels], [method |-> "GET", path |-> PathMemory],
   [method |-> "GET", path |-> PathHealth], [method |-> "GET", path |-> PathGeminiModels],
   [method |-> "GET", path |-> PathGeminiModel]}

RouteOf(req) == [method |-> req.method, path |-> req.path]

\* the handlers that answer 400 before getToken when the body has no messages
NeedsMessages(req) == req.path \in {PathChat, PathMessages}

GateInit ==
  /\ \E f \in StartRows(MaxTokens) : Constructed(f, NoRotationCfg)
  /\ currentIndex = 0
  /\ skipProjectIdFetch = TRUE
  /\ started = 0
  /\ events = 0
  /\ hist = <<>>
  /\ retry = NoRetry
  /\ probe = NoProbe
  /\ BackOff
  /\ \E k \in ApiKeys : gate = [pc |-> "idle", apiKey |-> k]

GateQuiet == UNCHANGED <<budgetVars, hist, retry, probe, backVars>>

\* a request arrives
Arrive(req) ==
  /\ gate.pc = "idle"
  /\ gate' = [pc |-> "middleware", apiKey |-> gate.apiKey, req |-> req,
              status |-> 0, upstream |-> FALSE]
  /\ UNCHANGED tmVars
  /\ GateQuiet

\* the API-key middleware: 401, or next()
ApiKeyMiddleware ==
  /\ gate.pc = "middleware"
  /\ IF ApiKeyPasses(gate.apiKey, gate.req)
     THEN gate' = [gate EXCEPT !.pc = "routing"]
     ELSE gate' = [gate EXCEPT !.pc = "answered", !.status = 401]
  /\ UNCHANGED tmVars
  /\ GateQuiet

\* a handler that answers without the rotator, or no route at all
HandlePlain ==
  /\ gate.pc = "routing"
  /\ RouteOf(gate.req) \notin TokenRoutes
  /\ gate' = [gate EXCEPT !.pc = "answered",
                          !.status = IF RouteOf(gate.req) \in PlainRoutes THEN 200 ELSE 404]
  /\ UNCHANGED tmVars
  /\ GateQuiet

\* chat completions and messages without a messages field: 400
HandleBadBody ==
  /\ gate.pc = "routing"
  /\ RouteOf(gate.req) \in TokenRoutes
  /\ NeedsMessages(gate.req) /\ ~gate.req.messages
  /\ gate' = [gate EXCEPT !.pc = "answered", !.status = 400]
  /\ UNCHANGED tmVars
  /\ GateQuiet

\* a handler that calls tokenManager.getToken()
HandleWithToken ==
  /\ gate.pc = "routing"
  /\ RouteOf(gate.req) \in TokenRoutes
  /\ NeedsMessages(gate.req) => gate.req.messages
  /\ GetTokenEnter(1)
  /\ gate' = [gate EXCEPT !.pc = "handler"]
  /\ GateQuiet

\* a step of the handler's getToken call
HandlerStep(A) ==
  /\ gate.pc = "handler"
  /\ A
  /\ UNCHANGED gate
  /\ GateQuiet

\* the handler has its credential and calls upstream with it
CallUpstream ==
  /\ gate.pc = "handler"
  /\ calls[1].pc = "returned"
  /\ calls[1].ret # None
  /\ Consume(1)
  /\ gate' = [gate EXCEPT !.pc = "answered", !.status = 200, !.upstream = TRUE]
  /\ GateQuiet

GateNext ==
  \/ \E req \in Requests : Arrive(req)
  \/ ApiKeyMiddleware
  \/ HandlePlain
  \/ HandleBadBody
  \/ HandleWithToken
  \/ HandlerStep(LoopStep(1))
  \/ HandlerStep(RefreshOk(1))
  \/ HandlerStep(ProjectStep(1))
  \/ HandlerStep(Commit(1))
  \/ CallUpstream

SpecGate == GateInit /\ [][GateNext]_vars

\* the request is under /v1/ or /v1beta/
UnderGuardedPrefix(req) ==
  StartsWith(req.path, V1Prefix) \/ StartsWith(req.path, <<"/", "v", "1", "b", "e", "t", "a", "/">>)

\* the request carries the key in one of the two headers, with or without "Bearer "
CarriesKey(req, key) ==
  \/ req.authorization \in {key, BearerPrefix \o key}
  \/ req.xApiKey \in {key, BearerPrefix \o key}

\* C9: with an API key configured, a request under /v1/ or /v1beta/ that does
\* not present the key is answered 401 and reaches no handler: no credential
\* is taken from the pool and no upstream call is made for it.
C9_KeyRequired ==
  (/\ gate.pc \notin {"off", "idle"}
   /\ gate.apiKey # Absent
   /\ UnderGuardedPrefix(gate.req)
   /\ ~CarriesKey(gate.req, gate.apiKey)) =>
    /\ gate.pc \in {"middleware", "answered"}
    /\ gate.pc = "answered" => gate.status = 401
    /\ ~gate.upstream
    /\ calls[1] = IdleCall

\* ------------------------------------------------------- the 429 retry wrapper
\* A JavaScript number: finite ones in halves (h = 2 * value), so that
\* Math.floor has something to do; NaN, Infinity and -Infinity by kind.
Num(h) == [kind |-> "num", h |-> h]
NaN == [kind |-> "nan", h |-> 0]
Infinity == [kind |-> "inf", h |-> 0]
MinusInfinity == [kind |-> "ninf", h |-> 0]
RetryInputs == {NaN, Infinity, MinusInfinity} \cup {Num(h) : h \in (0 - 2)..((2 * MaxRetries) + 1)}

IsFinite(x) == x.kind = "num"
Positive(x) == x.kind = "inf" \/ (x.kind = "num" /\ x.h > 0)

\* Number.isFinite(maxRetries) && maxRetries > 0 ? Math.floor(maxRetries) : 0
Retries(maxRetries) ==
  IF IsFinite(maxRetries) /\ Positive(maxRetries) THEN maxRetries.h \div 2 ELSE 0

\* errors: each of status, statusCode and response.status is missing, 429 or 500
StatusValues == {Undefined, 429, 500}
Errors == [status : StatusValues, statusCode : StatusValues, responseStatus : StatusValues]

\* Number(error.status || error.statusCode || error.response?.status);
\* Undefined stands for NaN
ErrStatus(e) ==
  IF ~Falsy(e.status) THEN e.status
  ELSE IF ~Falsy(e.statusCode) THEN e.statusCode
  ELSE e.responseStatus

\* a variant that retries once more than allowed
ShouldRetryOnceMore(status, attempt, retries) == status = 429 /\ attempt <= retries

\* status === 429 && attempt < retries
ShouldRetry(status, attempt, retries) == status = 429 /\ attempt < retries

NoError == [status |-> Undefined, statusCode |-> Undefined, responseStatus |-> Undefined]

RetryInit ==
  /\ \E f \in StartRows(1) : Constructed(f, NoRotationCfg)
  /\ currentIndex = 0
  /\ skipProjectIdFetch = TRUE
  /\ started = 0
  /\ events = 0
  /\ hist = <<>>
  /\ retry = NoRetry
  /\ gate = NoGate
  /\ probe = NoProbe
  /\ BackOff

RetryQuiet == UNCHANGED <<tmVars, budgetVars, hist, gate, probe, backVars>>

\* with429Retry(fn, maxRetries) is called
With429Retry(maxRetries) ==
  /\ retry = NoRetry
  /\ retry' = [pc |-> "call", maxRetries |-> maxRetries, retries |-> Retries(maxRetries),
               attempt |-> 0, invoked |-> 0, outcomes |-> <<>>, thrown |-> NoError]
  /\ RetryQuiet

\* fn(attempt) is invoked
InvokeFn ==
  /\ retry.pc = "call"
  /\ retry' = [retry EXCEPT !.pc = "await", !.invoked = @ + 1]
  /\ RetryQuiet

\* fn resolves: the wrapper returns its value
FnResolves ==
  /\ retry.pc = "await"
  /\ retry' = [retry EXCEPT !.pc = "returned",
                            !.outcomes = Append(@, [ok |-> TRUE, error |-> NoError])]
  /\ RetryQuiet

\* fn rejects: the catch block retries or rethrows
FnRejects(error) ==
  /\ retry.pc = "await"
  /\ LET out == Append(retry.outcomes, [ok |-> FALSE, error |-> error])
     IN  IF ShouldRetry(ErrStatus(error), retry.attempt, retry.retries)
         THEN retry' = [retry EXCEPT !.pc = "call", !.attempt = @ + 1, !.outcomes = out]
         ELSE retry' = [retry EXCEPT !.pc = "threw", !.thrown = error, !.outcomes = out]
  /\ RetryQuiet

RetryNext ==
  \/ \E m \in RetryInputs : With429Retry(m)
  \/ InvokeFn
  \/ FnResolves
  \/ \E e \in Errors : FnRejects(e)

SpecRetry == RetryInit /\ [][RetryNext]_vars

\* invoked <= retryTimes + 1, for a finite retryTimes given in halves
WithinRetryTimes(invoked, retryTimes) == 2 * invoked <= retryTimes.h + 2

\* retryTimes <= 0 or not finite
NoRetriesAsked(retryTimes) == ~IsFinite(retryTimes) \/ retryTimes.h <= 0

\* C10: the wrapper invokes the call at most retryTimes + 1 times; it invokes
\* it again only after an attempt that failed with status 429; an attempt that
\* fails with another status, or none, ends the loop with that error, and one
\* that succeeds ends it with that result; with retryTimes <= 0 or not finite
\* the call is made exactly once.
C10_RetryOn429Only ==
  retry.pc # "off" =>
    LET n == Len(retry.outcomes)
        done == retry.pc \in {"returned", "threw"}
    IN  /\ IsFinite(retry.maxRetries) /\ retry.maxRetries.h > 0 =>
             WithinRetryTimes(retry.invoked, retry.maxRetries)
        /\ NoRetriesAsked(retry.maxRetries) =>
             /\ retry.invoked <= 1
             /\ done => retry.invoked = 1
        /\ \A k \in 1..n :
             k < retry.invoked =>
               ~retry.outcomes[k].ok /\ ErrStatus(retry.outcomes[k].error) = 429
        /\ n > 0 /\ ~retry.outcomes[n].ok /\ ErrStatus(retry.outcomes[n].error) # 429 =>
             /\ retry.pc = "threw"
             /\ retry.thrown = retry.outcomes[n].error
             /\ retry.invoked = n
        /\ n > 0 /\ retry.outcomes[n].ok =>
             retry.pc = "returned" /\ retry.invoked = n
        /\ retry.pc = "threw" =>
             n > 0 /\ ~retry.outcomes[n].ok /\ retry.thrown = retry.outcomes[n].error
        /\ retry.pc = "returned" => n > 0 /\ retry.outcomes[n].ok

C10_Witness ==
  /\ retry.pc = "threw"
  /\ retry.maxRetries = Num((2 * MaxRetries) + 1)
  /\ retry.invoked = MaxRetries + 1
  /\ ErrStatus(retry.thrown) = 429

\* ---------------------------------------------------------- the chat handlers
\* One chat request on one of the three surfaces, from its arrival to the
\* return of its handler, with the response as the client receives it.
Surfaces == {"openai", "gemini", "claude"}

\* What upstream hands to the handler's callback: a delta of one of four types.
\* sig is the thoughtSignature it carries (0: none); bad marks a tool call
\* whose arguments are not JSON.  A tool_calls delta carries one tool call.
Deltas ==
  {d \in [type : {"usage", "reasoning", "tool_calls", "content"}, sig : {0, 1}, bad : BOOLEAN] :
     /\ d.sig # 0 => d.type \in {"reasoning", "tool_calls"}
     /\ d.bad => d.type = "tool_calls"}

\* What generateAssistantResponseNoStream resolves to: reasoning or not with its
\* signature, no or one tool call with its signature, parsable or not.
Results ==
  {x \in [reasoning : BOOLEAN, sig : {0, 1}, tools : {0, 1}, toolSig : {0, 1}, bad : BOOLEAN] :
     x.tools = 0 => (x.toolSig = 0 /\ ~x.bad)}

\* the part of a result a streaming handler reads: none of these fields
PlainResult == [reasoning |-> FALSE, sig |-> 0, tools |-> 0, toolSig |-> 0, bad |-> FALSE]

\* the same input with every signature value replaced by another value
OtherSig(sig) == IF sig = 0 THEN 0 ELSE 3 - sig
OtherDelta(d) == [d EXCEPT !.sig = OtherSig(@)]
OtherResult(x) == [x EXCEPT !.sig = OtherSig(@), !.toolSig = OtherSig(@)]

\* One thing written to the client, or one part of a JSON body.  src is the
\* number of the delta it was written for (0: none).
Frame(ev, type, index, sig, fin, usage, src) ==
  [ev |-> ev, type |-> type, index |-> index, sig |-> sig, fin |-> fin, usage |-> usage,
   src |-> src]

\* SSE_HEARTBEAT and SSE_DONE
Heartbeat == Frame("heartbeat", "", 0, 0, "", 0, 0)
Done == Frame("done", "", 0, 0, "", 0, 0)

\* the error envelope of a surface, with the status it was built for
ErrorPayload(surface, statusCode) == Frame("error", surface, statusCode, 0, "", 0, 0)

\* a variant that passes signatures on whatever the configuration says
GatedAlwaysOpen(sig, pass) == sig

\* x && config.passSignatureToClient ? x : absent
Gated(sig, pass) == IF sig # 0 /\ pass THEN sig ELSE 0

\* const statusCode = Number(error.status) || 500
StatusCode(error) == IF Falsy(error.status) THEN 500 ELSE error.status

\* const maxRetries = Number(config.retryTimes || 0);
\* const safeRetries = maxRetries > 0 ? Math.floor(maxRetries) : 0
SafeRetries(retryTimes) ==
  IF Positive(retryTimes) THEN Num(2 * (retryTimes.h \div 2)) ELSE Num(0)

\* the request before its handler runs
IdleResp(pass, retryTimes) ==
  [pc |-> "idle", surface |-> "", stream |-> FALSE, image |-> FALSE, pass |-> pass,
   retryTimes |-> retryTimes, wire |-> <<>>, body |-> <<>>, status |-> 0,
   headersSent |-> FALSE, ended |-> FALSE, closed |-> FALSE, finished |-> FALSE,
   timer |-> "none", hasToolCall |-> FALSE, usageData |-> 0, contentIndex |-> 0,
   currentBlockType |-> "", reasoningSent |-> FALSE, arrived |-> <<>>, beats |-> 0,
   failAt |-> 0 - 1]

\* res.write(...): the first write sends the headers, with status 200
Write(r, frames) ==
  [r EXCEPT !.wire = @ \o frames, !.headersSent = TRUE,
            !.status = IF r.headersSent THEN @ ELSE 200]

\* res.status(statusCode).json(body)
Json(r, statusCode, body) ==
  [r EXCEPT !.status = statusCode, !.body = body, !.headersSent = TRUE, !.ended = TRUE]

\* a variant of clearInterval that leaves the timer running
ClearIntervalForgotten(r) == r

\* clearInterval(heartbeatTimer)
ClearInterval(r) == [r EXCEPT !.timer = IF @ = "on" THEN "cleared" ELSE @]

\* createHeartbeat(res)
CreateHeartbeat(r) == [r EXCEPT !.timer = "on"]

\* endStream(res)
EndStream(r) == IF r.ended THEN r ELSE [Write(r, <<Done>>) EXCEPT !.ended = TRUE]

\* res.end()
End(r) == [r EXCEPT !.ended = TRUE, !.headersSent = TRUE,
                    !.status = IF r.headersSent THEN @ ELSE 200]

\* a variant of the OpenAI callback that never notes a tool call
OpenAIOnDataNoToolFlag(r, d, n) ==
  CASE d.type = "usage" -> [r EXCEPT !.usageData = n]
    [] d.type = "reasoning" ->
         Write(r, <<Frame("chunk", "reasoning", 0, Gated(d.sig, r.pass), "", 0, n)>>)
    [] d.type = "tool_calls" ->
         Write(r, <<Frame("chunk", "tool_calls", 0, Gated(d.sig, r.pass), "", 0, n)>>)
    [] OTHER -> Write(r, <<Frame("chunk", "content", 0, 0, "", 0, n)>>)

\* the callback of POST /v1/chat/completions, for the n-th delta
OpenAIOnData(r, d, n) ==
  CASE d.type = "usage" -> [r EXCEPT !.usageData = n]
    [] d.type = "reasoning" ->
         Write(r, <<Frame("chunk", "reasoning", 0, Gated(d.sig, r.pass), "", 0, n)>>)
    [] d.type = "tool_calls" ->
         Write([r EXCEPT !.hasToolCall = TRUE],
               <<Frame("chunk", "tool_calls", 0, Gated(d.sig, r.pass), "", 0, n)>>)
    [] OTHER -> Write(r, <<Frame("chunk", "content", 0, 0, "", 0, n)>>)

\* the callback of handleGeminiRequest; a tool call that does not parse is left
\* out of the chunk's parts
GeminiOnData(r, d, n) ==
  CASE d.type = "usage" -> [r EXCEPT !.usageData = n]
    [] d.type = "reasoning" ->
         Write(r, <<Frame("candidate", "reasoning", 0, Gated(d.sig, r.pass), "", 0, n)>>)
    [] d.type = "tool_calls" ->
         Write([r EXCEPT !.hasToolCall = TRUE],
               <<Frame("candidate", "tool_calls", 0,
                       IF d.bad THEN 0 ELSE Gated(d.sig, r.pass), "", 0, n)>>)
    [] OTHER -> Write(r, <<Frame("candidate", "content", 0, 0, "", 0, n)>>)

ContentBlockStop(index, n) == Frame("content_block_stop", "", index, 0, "", 0, n)

\* the callback of handleClaudeRequest
ClaudeOnData(r, d, n) ==
  CASE d.type = "usage" -> [r EXCEPT !.usageData = n]
    [] d.type = "reasoning" ->
         LET r1 == IF ~r.reasoningSent
                   THEN Write([r EXCEPT !.currentBlockType = "thinking",
                                        !.reasoningSent = TRUE],
                              <<Frame("content_block_start", "thinking", r.contentIndex,
                                      Gated(d.sig, r.pass), "", 0, n)>>)
                   ELSE r
         IN  Write(r1, <<Frame("content_block_delta", "thinking_delta", r1.contentIndex,
                               Gated(d.sig, r.pass), "", 0, n)>>)
    [] d.type = "tool_calls" ->
         LET r1 == [r EXCEPT !.hasToolCall = TRUE]
             r2 == IF r1.currentBlockType # ""
                   THEN Write([r1 EXCEPT !.contentIndex = @ + 1],
                              <<ContentBlockStop(r1.contentIndex, n)>>)
                   ELSE r1
             r3 == IF d.bad THEN r2
                   ELSE Write([r2 EXCEPT !.contentIndex = @ + 1],
                              <<Frame("content_block_start", "tool_use", r2.contentIndex,
                                      Gated(d.sig, r.pass), "", 0, n),
                                Frame("content_block_delta", "input_json_delta",
                                      r2.contentIndex, 0, "", 0, n),
                                ContentBlockStop(r2.contentIndex, n)>>)
         IN  [r3 EXCEPT !.currentBlockType = ""]
    [] OTHER ->
         LET r1 == IF r.currentBlockType = "thinking"
                   THEN Write([r EXCEPT !.contentIndex = @ + 1, !.currentBlockType = ""],
                              <<ContentBlockStop(r.contentIndex, n)>>)
                   ELSE r
             r2 == IF r1.currentBlockType # "text"
                   THEN Write([r1 EXCEPT !.currentBlockType = "text"],
                              <<Frame("content_block_start", "text", r1.contentIndex, 0, "",
                                      0, n)>>)
                   ELSE r1
         IN  Write(r2, <<Frame("content_block_delta", "text_delta", r2.contentIndex, 0, "",
                               0, n)>>)

\* the callback of the surface, with the delta recorded as arrived
OnData(r, d) ==
  LET n == Len(r.arrived) + 1
      r1 == [r EXCEPT !.arrived = Append(@, d)]
  IN  CASE r.surface = "openai" -> OpenAIOnData(r1, d, n)
        [] r.surface = "gemini" -> GeminiOnData(r1, d, n)
        [] OTHER -> ClaudeOnData(r1, d, n)

\* the parts of createGeminiResponse(content, reasoning, signature, toolCalls)
GeminiParts(x, pass) ==
  (IF x.reasoning THEN <<Frame("part", "thought", 0, Gated(x.sig, pass), "", 0, 0)>>
   ELSE <<>>)
  \o <<Frame("part", "text", 0, 0, "", 0, 0)>>
  \o (IF x.tools > 0 /\ ~x.bad
      THEN <<Frame("part", "functionCall", 0, Gated(x.toolSig, pass), "", 0, 0)>>
      ELSE <<>>)

\* the content blocks of createClaudeResponse
ClaudeBlocks(x, pass) ==
  (IF x.reasoning THEN <<Frame("block", "thinking", 0, Gated(x.sig, pass), "", 0, 0)>>
   ELSE <<>>)
  \o <<Frame("block", "text", 0, 0, "", 0, 0)>>
  \o (IF x.tools > 0
      THEN <<Frame("block", "tool_use", 0, IF x.bad THEN 0 ELSE Gated(x.toolSig, pass),
                   "", 0, 0)>>
      ELSE <<>>)

\* the message of the chat.completion response, and its tool calls
OpenAIMessage(x, pass) ==
  <<Frame("message", IF x.reasoning THEN "reasoning" ELSE "content", 0, Gated(x.sig, pass),
          IF x.tools > 0 THEN "tool_calls" ELSE "stop", 0, 0)>>
  \o (IF x.tools > 0
      THEN <<Frame("tool_call", "", 0, IF pass THEN x.toolSig ELSE 0, "", 0, 0)>>
      ELSE <<>>)

\* the handler after with429Retry returned x, streaming
StreamCompleted(r, x) ==
  CASE r.surface = "openai" ->
         LET r1 == IF r.image
                   THEN Write(r, <<Frame("chunk", "content", 0, 0, "", 0, 0),
                                   Frame("chunk", "", 0, 0, "stop", 0, 0)>>)
                   ELSE Write(r, <<Frame("chunk", "", 0, 0,
                                         IF r.hasToolCall THEN "tool_calls" ELSE "stop",
                                         r.usageData, 0)>>)
         IN  EndStream(ClearInterval(r1))
    [] r.surface = "gemini" ->
         EndStream(ClearInterval(
           Write(r, <<Frame("candidate", "", 0, 0, "STOP", r.usageData, 0)>>)))
    [] OTHER ->
         LET r1 == IF r.currentBlockType # ""
                   THEN Write(r, <<ContentBlockStop(r.contentIndex, 0)>>)
                   ELSE r
             r2 == Write(r1, <<Frame("message_delta", "", 0, 0,
                                     IF r.hasToolCall THEN "tool_use" ELSE "end_turn",
                                     r.usageData, 0),
                               Frame("message_stop", "", 0, 0, "", 0, 0)>>)
         IN  End(ClearInterval(r2))

\* the handler after with429Retry returned x, not streaming
JsonCompleted(r, x) ==
  CASE r.surface = "openai" -> Json(r, 200, OpenAIMessage(x, r.pass))
    [] r.surface = "gemini" -> Json(r, 200, GeminiParts(x, r.pass))
    [] OTHER -> Json(r, 200, ClaudeBlocks(x, r.pass))

\* the outer catch block of a handler
OuterCatch(r, error) ==
  IF r.headersSent THEN r
  ELSE Json(r, StatusCode(error), <<ErrorPayload(r.surface, StatusCode(error))>>)

\* the handler after with429Retry threw error, streaming
StreamFailed(r, error) ==
  LET r1 == ClearInterval(r)
  IN  CASE r.surface = "openai" -> OuterCatch(r1, error)
        [] r.surface = "gemini" ->
             IF ~r1.ended
             THEN EndStream(Write(r1, <<ErrorPayload("gemini", StatusCode(error))>>))
             ELSE r1
        [] OTHER ->
             IF ~r1.ended
             THEN End(Write(r1, <<ErrorPayload("claude", StatusCode(error))>>))
             ELSE r1

\* the handler has returned
Returned(r) == [r EXCEPT !.pc = "done"]

\* the errors upstream calls fail with: status 429, status 500, or no status
StreamErrors ==
  {e \in Errors : e.statusCode = Undefined /\ e.responseStatus = Undefined}

StreamInit ==
  /\ \E f \in {<<>>, <<ReadyRow(1, TRUE)>>} : Constructed(f, NoRotationCfg)
  /\ currentIndex = 0
  /\ skipProjectIdFetch = FALSE
  /\ started = 0
  /\ events = 0
  /\ hist = <<>>
  /\ retry = NoRetry
  /\ gate = NoGate
  /\ probe = NoProbe
  /\ mem = NoMem
  /\ conv = NoConv
  /\ SideOff
  /\ \E pass \in BOOLEAN, retryTimes \in {Num(0), Num(3)} :
       /\ resp = IdleResp(pass, retryTimes)
       /\ twin = resp

StreamQuiet == UNCHANGED <<budgetVars, hist, gate, probe, mem, conv, sideVars>>

\* a request without messages on a surface that requires them: 400
BadRequest(surface, stream) ==
  /\ resp.pc = "idle"
  /\ surface \in {"openai", "claude"}
  /\ LET Answer(r) ==
           Returned(Json([r EXCEPT !.surface = surface, !.stream = stream], 400,
                         <<ErrorPayload(surface, 400)>>))
     IN  resp' = Answer(resp) /\ twin' = Answer(twin)
  /\ UNCHANGED <<tmVars, retry>>
  /\ StreamQuiet

\* a chat request arrives and its handler calls tokenManager.getToken()
ChatRequest(surface, stream, image) ==
  /\ resp.pc = "idle"
  /\ image => surface = "openai" /\ stream
  /\ GetTokenEnter(1)
  /\ LET Start(r) == [r EXCEPT !.pc = "token", !.surface = surface, !.stream = stream,
                               !.image = image]
     IN  resp' = Start(resp) /\ twin' = Start(twin)
  /\ UNCHANGED retry
  /\ StreamQuiet

\* a step of the handler's getToken call
TokenStep(A) ==
  /\ resp.pc = "token"
  /\ A
  /\ UNCHANGED <<retry, resp, twin>>
  /\ StreamQuiet

\* getToken returned: without a token the handler throws; with one, a streaming
\* handler sets the headers and starts the heartbeat (Claude: writes message_start)
GotToken ==
  /\ resp.pc = "token"
  /\ calls[1].pc = "returned"
  /\ Consume(1)
  /\ LET Go(r) ==
           IF calls[1].ret = None
           THEN Returned(OuterCatch([r EXCEPT !.failAt = 0], NoError))
           ELSE IF ~r.stream THEN [r EXCEPT !.pc = "ready"]
           ELSE LET r1 == CreateHeartbeat([r EXCEPT !.pc = "ready"])
                IN  IF r.surface = "claude"
                    THEN Write(r1, <<Frame("message_start", "", 0, 0, "", 0, 0)>>)
                    ELSE r1
     IN  resp' = Go(resp) /\ twin' = Go(twin)
  /\ UNCHANGED retry
  /\ StreamQuiet

\* the handler calls with429Retry(fn, safeRetries)
CallWithRetry ==
  /\ resp.pc = "ready"
  /\ With429Retry(SafeRetries(resp.retryTimes))

\* a step of with429Retry inside the handler
RetryStep(A) ==
  /\ resp.pc = "ready"
  /\ A

\* upstream hands a delta to the callback
Deliver(d) ==
  /\ resp.pc = "ready"
  /\ retry.pc = "await"
  /\ resp.stream /\ ~resp.image
  /\ Len(resp.arrived) < MaxDeltas
  /\ resp' = OnData(resp, d)
  /\ twin' = OnData(twin, OtherDelta(d))
  /\ UNCHANGED <<tmVars, retry>>
  /\ StreamQuiet

\* with429Retry returned x
Completed(x) ==
  /\ resp.pc = "ready"
  /\ retry.pc = "returned"
  /\ resp.stream => x = PlainResult
  /\ IF resp.stream
     THEN resp' = Returned(StreamCompleted(resp, x))
          /\ twin' = Returned(StreamCompleted(twin, OtherResult(x)))
     ELSE resp' = Returned(JsonCompleted(resp, x))
          /\ twin' = Returned(JsonCompleted(twin, OtherResult(x)))
  /\ UNCHANGED <<tmVars, retry>>
  /\ StreamQuiet

\* with429Retry threw
Failed_(r) ==
  LET r1 == [r EXCEPT !.failAt = Len(r.wire)]
  IN  Returned(IF r.stream THEN StreamFailed(r1, retry.thrown)
               ELSE OuterCatch(r1, retry.thrown))

HandlerFailed ==
  /\ resp.pc = "ready"
  /\ retry.pc = "threw"
  /\ resp' = Failed_(resp)
  /\ twin' = Failed_(twin)
  /\ UNCHANGED <<tmVars, retry>>
  /\ StreamQuiet

\* no synchronous section of the handler is running or due
HandlerSuspended == retry.pc = "await" \/ resp.pc = "done"

\* the interval callback of createHeartbeat
HeartbeatTick ==
  /\ resp.timer = "on"
  /\ HandlerSuspended
  /\ resp.beats < MaxBeats
  /\ LET Beat(r) ==
           IF ~r.ended THEN Write([r EXCEPT !.beats = @ + 1], <<Heartbeat>>)
           ELSE ClearInterval(r)
     IN  resp' = Beat(resp) /\ twin' = Beat(twin)
  /\ UNCHANGED <<tmVars, retry>>
  /\ StreamQuiet

\* the client disconnects: res emits 'close'
ClientClose ==
  /\ resp.pc \in {"ready", "done"}
  /\ HandlerSuspended
  /\ ~resp.closed
  /\ LET Close(r) == ClearInterval([r EXCEPT !.closed = TRUE])
     IN  resp' = Close(resp) /\ twin' = Close(twin)
  /\ UNCHANGED <<tmVars, retry>>
  /\ StreamQuiet

\* the ended response is flushed: res emits 'finish'
Finish ==
  /\ resp.pc = "done"
  /\ resp.ended
  /\ ~resp.finished
  /\ LET Fin(r) == ClearInterval([r EXCEPT !.finished = TRUE])
     IN  resp' = Fin(resp) /\ twin' = Fin(twin)
  /\ UNCHANGED <<tmVars, retry>>
  /\ StreamQuiet

StreamNext ==
  \/ \E surface \in Surfaces, stream \in BOOLEAN : BadRequest(surface, stream)
  \/ \E surface \in Surfaces, stream \in BOOLEAN, image \in BOOLEAN :
       ChatRequest(surface, stream, image)
  \/ TokenStep(LoopStep(1))
  \/ TokenStep(ProjectStep(1))
  \/ TokenStep(Commit(1))
  \/ GotToken
  \/ CallWithRetry
  \/ RetryStep(InvokeFn)
  \/ RetryStep(FnResolves)
  \/ \E e \in StreamErrors : RetryStep(FnRejects(e))
  \/ \E d \in Deltas : Deliver(d)
  \/ \E x \in Results : Completed(x)
  \/ HandlerFailed
  \/ HeartbeatTick
  \/ ClientClose
  \/ Finish

SpecStream == StreamInit /\ [][StreamNext]_vars

\* the frames of a response other than heartbeats
Events(wire) == SelectSeq(wire, LAMBDA f : f.ev # "heartbeat")

\* the status an error carries, as with429Retry reads it; 500 when it carries none
CarriedStatus(error) == IF Falsy(ErrStatus(error)) THEN 500 ELSE ErrStatus(error)

\* the request failed before anything was written to the client
FailedUnwritten == resp.pc = "done" /\ resp.failAt = 0

\* C11: when a chat request fails before any byte was written, the HTTP status
\* of the response is the status the error carries, 500 when it carries none
\* (as when getToken returned null), and the body is the error envelope of
\* the surface that was called.
C11_ErrorStatus ==
  FailedUnwritten =>
    LET expected == IF retry.pc = "threw" THEN CarriedStatus(retry.thrown) ELSE 500
    IN  /\ resp.status = expected
        /\ resp.body = <<ErrorPayload(resp.surface, expected)>>

\* C12: in a streaming handler, when a retry attempt of the upstream call
\* begins, nothing has been written to the client: no protocol event and no
\* heartbeat.
C12_RetryBeforeFirstByte ==
  (resp.pc = "ready" /\ resp.stream /\ retry.pc = "call" /\ retry.attempt > 0) =>
    resp.wire = <<>>

\* the frames written since the failure
SinceFailure == SubSeq(resp.wire, resp.failAt + 1, Len(resp.wire))

\* C13: a streaming request that fails after something was written has its
\* heartbeat cleared and its stream closed in-band: OpenAI just ended, Gemini
\* an {error} payload and ended, Claude an error event and ended; the response
\* is ended on every surface.
C13_FailedStreamIsEnded ==
  (resp.pc = "done" /\ resp.stream /\ resp.failAt > 0) =>
    /\ resp.timer # "on"
    /\ resp.ended
    /\ resp.surface = "openai" => SinceFailure \in {<<>>, <<Done>>}
    /\ resp.surface = "gemini" =>
         /\ SinceFailure # <<>>
         /\ SinceFailure[1].ev = "error" /\ SinceFailure[1].type = "gemini"
    /\ resp.surface = "claude" =>
         SinceFailure = <<ErrorPayload("claude", CarriedStatus(retry.thrown))>>

\* a heartbeat is written in this step
HeartbeatWritten ==
  /\ Len(resp'.wire) > Len(resp.wire)
  /\ resp'.wire[Len(resp'.wire)].ev = "heartbeat"

\* the stream has closed, finished, completed or failed
StreamOver == resp.closed \/ resp.finished \/ resp.ended \/ resp.pc = "done"

StreamDone == resp.pc = "done" /\ resp.stream /\ retry.pc = "returned"

\* the frames written for deltas are in the order of the deltas
InArrivalOrder(w) ==
  \A i, j \in 1..Len(w) : (i < j /\ w[i].src > 0 /\ w[j].src > 0) => w[i].src <= w[j].src

\* the terminal frame of a surface
IsTerminal(surface, f) ==
  CASE surface = "openai" -> f.ev = "done"
    [] surface = "gemini" -> f.ev = "candidate" /\ f.fin = "STOP"
    [] OTHER -> f.ev = "message_stop"

\* C15: on a stream that completes, the events written for deltas are in
\* arrival order, and the terminal frame (the final chunk and [DONE] for
\* OpenAI, message_stop for Claude, the final candidate chunk for Gemini) is
\* written exactly once, after the events of the last delta, with nothing
\* after it.
C15_OrderedAndTerminated ==
  StreamDone =>
    LET w == resp.wire
    IN  /\ InArrivalOrder(w)
        /\ w # <<>>
        /\ IsTerminal(resp.surface, w[Len(w)])
        /\ Cardinality({k \in 1..Len(w) : IsTerminal(resp.surface, w[k])}) = 1
        /\ resp.surface = "openai" =>
             /\ Len(w) > 1
             /\ w[Len(w) - 1].ev = "chunk" /\ w[Len(w) - 1].fin # ""
             /\ Cardinality({k \in 1..Len(w) : w[k].fin # ""}) = 1

\* (message_start, (content_block_start, content_block_delta+,
\* content_block_stop)*, message_delta, message_stop) with block indices 0, 1, ...:
\* w from position k on is accepted from state st with next block index next
RECURSIVE ClaudeAccepts(_, _, _, _)
ClaudeAccepts(w, k, st, next) ==
  IF k > Len(w) THEN st = "end"
  ELSE LET f == w[k]
       IN  CASE st = "start" /\ f.ev = "message_start" ->
                  ClaudeAccepts(w, k + 1, "between", 0)
             [] st = "between" /\ f.ev = "content_block_start" /\ f.index = next ->
                  ClaudeAccepts(w, k + 1, "started", next)
             [] st \in {"started", "in"} /\ f.ev = "content_block_delta" /\ f.index = next ->
                  ClaudeAccepts(w, k + 1, "in", next)
             [] st = "in" /\ f.ev = "content_block_stop" /\ f.index = next ->
                  ClaudeAccepts(w, k + 1, "between", next + 1)
             [] st = "between" /\ f.ev = "message_delta" ->
                  ClaudeAccepts(w, k + 1, "md", next)
             [] st = "md" /\ f.ev = "message_stop" ->
                  ClaudeAccepts(w, k + 1, "end", next)
             [] OTHER -> FALSE

\* C16: in Claude streaming, for every sequence of deltas of a completed call
\* the events are message_start, blocks of content_block_start,
\* content_block_delta+, content_block_stop, then message_delta, message_stop;
\* at most one block open at a time, block indices 0, 1, 2, ...
C16_ClaudeEventGrammar ==
  (StreamDone /\ resp.surface = "claude") =>
    ClaudeAccepts(Events(resp.wire), 1, "start", 0)

\* the number of the last usage delta that arrived, 0 when none did
LastUsage(arrived) ==
  LET us == {n \in 1..Len(arrived) : arrived[n].type = "usage"}
  IN  IF us = {} THEN 0 ELSE CHOOSE n \in us : \A m \in us : m <= n

\* C17: in an OpenAI stream each content, reasoning or tool_calls delta
\* produces exactly one chat.completion.chunk and usage deltas none; the one
\* terminal chunk has an empty delta, finish_reason tool_calls if a tool_calls
\* delta was forwarded and stop otherwise, and the usage last received; it is
\* followed by data: [DONE].
C17_OpenAIChunks ==
  (StreamDone /\ resp.surface = "openai" /\ ~resp.image) =>
    LET w == Events(resp.wire)
        ds == resp.arrived
        last == Len(w) - 1
    IN  /\ \A n \in 1..Len(ds) :
             LET of == {k \in 1..Len(w) : w[k].src = n}
             IN  IF ds[n].type = "usage" THEN of = {}
                 ELSE /\ Cardinality(of) = 1
                      /\ \A k \in of : /\ w[k].ev = "chunk"
                                       /\ w[k].type = ds[n].type
                                       /\ w[k].fin = ""
                                       /\ k < last
        /\ Len(w) = Cardinality({n \in 1..Len(ds) : ds[n].type # "usage"}) + 2
        /\ w[last].ev = "chunk" /\ w[last].type = ""
        /\ w[last].fin = IF \E n \in 1..Len(ds) : ds[n].type = "tool_calls"
                         THEN "tool_calls" ELSE "stop"
        /\ w[last].usage = LastUsage(ds)
        /\ w[Len(w)] = Done

C17_Witness ==
  /\ StreamDone
  /\ resp.surface = "openai"
  /\ ~resp.image
  /\ Len(resp.arrived) = MaxDeltas
  /\ resp.arrived[1].type = "tool_calls"
  /\ resp.arrived[2].type = "usage"
  /\ retry.attempt > 0

\* no frame carries a signature
Unsigned(frames) == \A k \in 1..Len(frames) : frames[k].sig = 0

\* C18: with passSignatureToClient false no payload sent to a client, streaming
\* or not, on any surface carries a thoughtSignature or signature field: the
\* run and its twin, which differ only in the signature values upstream sent,
\* produce the same output.
C18_SignaturesWithheld ==
  (resp.pc # "off" /\ ~resp.pass) =>
    /\ Unsigned(resp.wire) /\ Unsigned(resp.body)
    /\ resp.wire = twin.wire
    /\ resp.body = twin.body
    /\ resp.status = twin.status

C18_Witness ==
  /\ resp.pc = "done"
  /\ ~resp.pass
  /\ resp.surface = "claude"
  /\ resp.stream
  /\ Len(resp.arrived) > 1
  /\ resp.arrived[1].sig # 0
  /\ resp.arrived[2].sig # 0
  /\ twin.arrived[1].sig # resp.arrived[1].sig

\* ------------------------------------------------------ the memory manager
MaxTicks == 4

GcCooldown == 10000
MemoryCheckInterval == 30000
DefaultThresholdMB == 100
BytesPerMB == 1024 * 1024

\* MemoryPressure
Pressures == {"low", "medium", "high", "critical"}

\* Math.floor(highBytes * tenths / 10) for a whole number of bytes
FloorTenths(highBytes, tenths) == (highBytes * tenths) \div 10

\* calculateThresholds(thresholdMB)
CalculateThresholds(thresholdMB) ==
  LET highBytes == thresholdMB * BytesPerMB
  IN  [LOW |-> FloorTenths(highBytes, 3), MEDIUM |-> FloorTenths(highBytes, 6),
       HIGH |-> highBytes, TARGET |-> FloorTenths(highBytes, 5)]

\* POOL_SIZES
POOL_SIZES ==
  [p \in Pressures |->
     CASE p = "low" -> [chunk |-> 30, toolCall |-> 15, lineBuffer |-> 5]
       [] p = "medium" -> [chunk |-> 20, toolCall |-> 10, lineBuffer |-> 3]
       [] p = "high" -> [chunk |-> 10, toolCall |-> 5, lineBuffer |-> 2]
       [] p = "critical" -> [chunk |-> 5, toolCall |-> 3, lineBuffer |-> 1]]

\* getPressureLevel with <= in place of <
GetPressureLevelInclusive(thresholds, heapUsed) ==
  IF heapUsed <= thresholds.LOW THEN "low"
  ELSE IF heapUsed <= thresholds.MEDIUM THEN "medium"
  ELSE IF heapUsed <= thresholds.HIGH THEN "high"
  ELSE "critical"

\* getPressureLevel(heapUsed), THRESHOLDS passed in
GetPressureLevel(thresholds, heapUsed) ==
  IF heapUsed < thresholds.LOW THEN "low"
  ELSE IF heapUsed < thresholds.MEDIUM THEN "medium"
  ELSE IF heapUsed < thresholds.HIGH THEN "high"
  ELSE "critical"

\* getPoolSizes()
GetPoolSizes(m) == POOL_SIZES[m.currentPressure]

\* new MemoryManager(), with the module-level THRESHOLDS; pc is the server's
\* position (loading its modules, running, stopped), gc is global.gc being
\* defined (node --expose-gc), now is Date.now(), log is the checks made so far
NewMemoryManager(gc) ==
  [pc |-> "load", currentPressure |-> "low", cleanupCallbacks |-> {}, lastGCTime |-> 0,
   checkInterval |-> FALSE, isShuttingDown |-> FALSE,
   configuredThresholdMB |-> DefaultThresholdMB,
   THRESHOLDS |-> CalculateThresholds(DefaultThresholdMB),
   gcCount |-> 0, cleanupCount |-> 0, peakMemory |-> 0,
   gc |-> gc, now |-> MemoryCheckInterval, log |-> <<>>]

\* the values of config.server.memoryThreshold
ThresholdInputs == {0 - 1, 0, 1, DefaultThresholdMB}

\* process.memoryUsage().heapUsed: the tier boundaries of 1 MB and of 100 MB,
\* and the readings of the pressure cascade
HeapReadings ==
  {FloorTenths(BytesPerMB, 3), FloorTenths(BytesPerMB, 6)}
    \cup {mb * BytesPerMB : mb \in {25, 30, 50, 80, 100, 110}}

\* forceGC()
ForceGC(m) ==
  IF m.gc THEN [m EXCEPT !.lastGCTime = m.now, !.gcCount = @ + 1] ELSE m

\* tryGC()
TryGC(m) == IF m.now - m.lastGCTime < GcCooldown THEN m ELSE ForceGC(m)

\* a variant of check() that notifies the callbacks only when the tier changed
CheckResultOnChange(m, heapUsed) ==
  LET newPressure == GetPressureLevel(m.THRESHOLDS, heapUsed)
      m1 == [m EXCEPT !.peakMemory = Max(@, heapUsed), !.currentPressure = newPressure]
      m2 == IF newPressure = "low" THEN m1 ELSE [m1 EXCEPT !.cleanupCount = @ + 1]
      m3 == CASE newPressure = "critical" -> ForceGC(m2)
              [] newPressure = "high" -> TryGC(m2)
              [] OTHER -> m2
      entry == [heapUsed |-> heapUsed, highMB |-> m.configuredThresholdMB,
                was |-> m.currentPressure, returned |-> newPressure,
                notified |-> IF newPressure = m.currentPressure THEN {}
                             ELSE m.cleanupCallbacks,
                signal |-> newPressure, poolSizes |-> GetPoolSizes(m3)]
  IN  [m3 EXCEPT !.log = Append(@, entry)]

\* check(), reading heapUsed: the state after it, the callbacks notified and the
\* pool sizes they then read added to the log
CheckResult(m, heapUsed) ==
  LET newPressure == GetPressureLevel(m.THRESHOLDS, heapUsed)
      m1 == [m EXCEPT !.peakMemory = Max(@, heapUsed), !.currentPressure = newPressure]
      m2 == IF newPressure = "low" THEN m1 ELSE [m1 EXCEPT !.cleanupCount = @ + 1]
      m3 == CASE newPressure = "critical" -> ForceGC(m2)
              [] newPressure = "high" -> TryGC(m2)
              [] OTHER -> m2
      entry == [heapUsed |-> heapUsed, highMB |-> m.configuredThresholdMB,
                was |-> m.currentPressure, returned |-> newPressure,
                notified |-> IF newPressure = "low" THEN {} ELSE m.cleanupCallbacks,
                signal |-> newPressure, poolSizes |-> GetPoolSizes(m3)]
  IN  [m3 EXCEPT !.log = Append(@, entry)]

MemInit ==
  /\ \E f \in StartRows(1) : Constructed(f, NoRotationCfg)
  /\ currentIndex = 0
  /\ skipProjectIdFetch = TRUE
  /\ started = 0
  /\ events = 0
  /\ hist = <<>>
  /\ retry = NoRetry
  /\ gate = NoGate
  /\ probe = NoProbe
  /\ resp = NoResp
  /\ twin = NoResp
  /\ conv = NoConv
  /\ SideOff
  /\ \E gc \in BOOLEAN : mem = NewMemoryManager(gc)

MemQuiet == UNCHANGED <<tmVars, budgetVars, hist, retry, gate, probe, resp, twin, conv, sideVars>>

\* setThreshold(thresholdMB), called by the server before start()
SetThreshold(thresholdMB) ==
  /\ mem.pc = "load"
  /\ mem' = IF thresholdMB # 0 /\ thresholdMB > 0
            THEN [mem EXCEPT !.configuredThresholdMB = thresholdMB,
                             !.THRESHOLDS = CalculateThresholds(thresholdMB)]
            ELSE mem
  /\ MemQuiet

\* registerCleanup(callback), called by the modules that own a cache or a pool
\* as they are loaded
RegisterCleanup(callback) ==
  /\ mem.pc = "load"
  /\ callback \notin mem.cleanupCallbacks
  /\ mem' = [mem EXCEPT !.cleanupCallbacks = @ \cup {callback}]
  /\ MemQuiet

\* start(interval): the timer is set and the first check made at once
Start(heapUsed) ==
  /\ mem.pc = "load"
  /\ ~mem.checkInterval
  /\ Len(mem.log) < MaxTicks
  /\ mem' = CheckResult([mem EXCEPT !.pc = "run", !.checkInterval = TRUE], heapUsed)
  /\ MemQuiet

\* the interval timer fires
IntervalFires(heapUsed) ==
  /\ mem.checkInterval
  /\ Len(mem.log) < MaxTicks
  /\ LET m == [mem EXCEPT !.now = @ + MemoryCheckInterval]
     IN  mem' = IF ~m.isShuttingDown THEN CheckResult(m, heapUsed) ELSE m
  /\ MemQuiet

\* stop(), called by the server as it shuts down
Stop ==
  /\ mem.pc = "run"
  /\ mem' = [mem EXCEPT !.pc = "stopped", !.isShuttingDown = TRUE, !.checkInterval = FALSE,
                        !.cleanupCallbacks = {}]
  /\ MemQuiet

MemNext ==
  \/ \E mb \in ThresholdInputs : SetThreshold(mb)
  \/ RegisterCleanup(1)
  \/ \E h \in HeapReadings : Start(h)
  \/ \E h \in HeapReadings : IntervalFires(h)
  \/ Stop

SpecMemory == MemInit /\ [][MemNext]_vars

\* the tier of a reading against 0.3 H, 0.6 H and H taken as exact fractions of
\* highMB megabytes
ExactTier(heapUsed, highMB) ==
  LET highBytes == highMB * BytesPerMB
  IN  IF 10 * heapUsed < 3 * highBytes THEN "low"
      ELSE IF 10 * heapUsed < 6 * highBytes THEN "medium"
      ELSE IF heapUsed < highBytes THEN "high"
      ELSE "critical"

\* the tier of a reading against 0.3 H and 0.6 H rounded down to whole bytes
FlooredTier(heapUsed, highMB) ==
  LET highBytes == highMB * BytesPerMB
  IN  IF heapUsed < (3 * highBytes) \div 10 THEN "low"
      ELSE IF heapUsed < (6 * highBytes) \div 10 THEN "medium"
      ELSE IF heapUsed < highBytes THEN "high"
      ELSE "critical"

\* the pressure cascade: highMB = 100 and the readings 25, 50, 80, 110 MB
IsCascade(log) ==
  /\ Len(log) = 4
  /\ \A i \in 1..4 : log[i].highMB = 100
  /\ [i \in 1..4 |-> log[i].heapUsed]
       = <<25 * BytesPerMB, 50 * BytesPerMB, 80 * BytesPerMB, 110 * BytesPerMB>>

\* every size of row a is larger than that of row b
Descends(a, b) ==
  a.chunk > b.chunk /\ a.toolCall > b.toolCall /\ a.lineBuffer > b.lineBuffer

CascadeOutcome(log) ==
  /\ [i \in 1..4 |-> log[i].returned] = <<"low", "medium", "high", "critical">>
  /\ \A i \in 1..3 : Descends(log[i].poolSizes, log[i + 1].poolSizes)

MaxMessages == 2
MaxParts == 2
NumIds == 2

\* a part of a message: a functionCall or a functionResponse with its id
\* (Undefined when it has none), or a text part
Part(kind, id) == [kind |-> kind, id |-> id]

Parts ==
  {Part("text", Undefined)}
    \cup {Part(k, id) : k \in {"functionCall", "functionResponse"},
                        id \in {Undefined} \cup (1..NumIds)}

SeqsUpTo(S, n) == UNION {[1..k -> S] : k \in 0..n}

\* request.contents
Contents ==
  SeqsUpTo({[role |-> r, parts |-> p] : r \in {"model", "user"}, p \in SeqsUpTo(Parts, MaxParts)},
           MaxMessages) \ {<<>>}

\* generateFunctionCallId(), for the n-th id collected: a value no request carries
GenerateFunctionCallId(n) == NumIds + n

\* the first forEach of processFunctionCallIds within one message, from part i on:
\* the parts as they are left and functionCallIds
RECURSIVE CollectParts(_, _, _)
CollectParts(parts, i, functionCallIds) ==
  IF i > Len(parts) THEN [parts |-> parts, functionCallIds |-> functionCallIds]
  ELSE IF parts[i].kind = "functionCall"
       THEN LET id == IF Falsy(parts[i].id)
                      THEN GenerateFunctionCallId(Len(functionCallIds) + 1)
                      ELSE parts[i].id
            IN  CollectParts([parts EXCEPT ![i].id = id], i + 1, Append(functionCallIds, id))
       ELSE CollectParts(parts, i + 1, functionCallIds)

\* the first forEach over contents, from message j on
RECURSIVE CollectIds(_, _, _)
CollectIds(contents, j, functionCallIds) ==
  IF j > Len(contents) THEN [contents |-> contents, functionCallIds |-> functionCallIds]
  ELSE IF contents[j].role = "model"
       THEN LET c == CollectParts(contents[j].parts, 1, functionCallIds)
            IN  CollectIds([contents EXCEPT ![j].parts = c.parts], j + 1, c.functionCallIds)
       ELSE CollectIds(contents, j + 1, functionCallIds)

\* the second forEach within one message, from part i on
RECURSIVE AssignParts(_, _, _, _)
AssignParts(parts, i, functionCallIds, responseIndex) ==
  IF i > Len(parts) THEN [parts |-> parts, responseIndex |-> responseIndex]
  ELSE IF /\ parts[i].kind = "functionResponse"
          /\ Falsy(parts[i].id)
          /\ responseIndex < Len(functionCallIds)
       THEN AssignParts([parts EXCEPT ![i].id = functionCallIds[responseIndex + 1]],
                        i + 1, functionCallIds, responseIndex + 1)
       ELSE AssignParts(parts, i + 1, functionCallIds, responseIndex)

\* the second forEach over contents, from message j on
RECURSIVE AssignIds(_, _, _, _)
AssignIds(contents, j, functionCallIds, responseIndex) ==
  IF j > Len(contents) THEN contents
  ELSE IF contents[j].role = "user"
       THEN LET a == AssignParts(contents[j].parts, 1, functionCallIds, responseIndex)
            IN  AssignIds([contents EXCEPT ![j].parts = a.parts], j + 1,
                          functionCallIds, a.responseIndex)
       ELSE AssignIds(contents, j + 1, functionCallIds, responseIndex)

\* processFunctionCallIds(contents): contents as it leaves them
ProcessFunctionCallIds(contents) ==
  LET c == CollectIds(contents, 1, <<>>)
  IN  AssignIds(c.contents, 1, c.functionCallIds, 0)

ConvInit ==
  /\ \E f \in StartRows(1) : Constructed(f, NoRotationCfg)
  /\ currentIndex = 0
  /\ skipProjectIdFetch = TRUE
  /\ started = 0
  /\ events = 0
  /\ hist = <<>>
  /\ retry = NoRetry
  /\ gate = NoGate
  /\ probe = NoProbe
  /\ resp = NoResp
  /\ twin = NoResp
  /\ mem = NoMem
  /\ SideOff
  /\ \E c \in Contents : conv = [pc |-> "request", contents |-> c]

ConvQuiet == UNCHANGED <<tmVars, budgetVars, hist, retry, gate, probe, resp, twin, mem, sideVars>>

\* generateGeminiRequestBody calls processFunctionCallIds(request.contents)
ThreadIds ==
  /\ conv.pc = "request"
  /\ conv' = [pc |-> "threaded", contents |-> conv.contents,
              threaded |-> ProcessFunctionCallIds(conv.contents)]
  /\ ConvQuiet

ConvNext == ThreadIds

SpecConvert == ConvInit /\ [][ConvNext]_vars

\* the parts of the given kind in the messages of the given role, in order
RECURSIVE PartsOf(_, _, _)
PartsOf(contents, role, kind) ==
  IF contents = <<>> THEN <<>>
  ELSE LET head == IF contents[1].role = role
                   THEN SelectSeq(contents[1].parts, LAMBDA p : p.kind = kind)
                   ELSE <<>>
       IN  head \o PartsOf(Tail(contents), role, kind)

\* k functionCall parts in model messages followed by k functionResponse parts in
\* user messages, each response without an id or with the id of its call
CallsThenResponses(contents) ==
  LET fnCalls == PartsOf(contents, "model", "functionCall")
      fnResponses == PartsOf(contents, "user", "functionResponse")
  IN  /\ Len(fnCalls) = Len(fnResponses)
      /\ Len(fnCalls) > 0
      /\ PartsOf(contents, "user", "functionCall") = <<>>
      /\ PartsOf(contents, "model", "functionResponse") = <<>>
      /\ \A i, j \in 1..Len(contents) :
           /\ \E p \in 1..Len(contents[i].parts) : contents[i].parts[p].kind = "functionCall"
           /\ \E p \in 1..Len(contents[j].parts) : contents[j].parts[p].kind = "functionResponse"
           => i < j
      /\ \A i \in 1..Len(fnResponses) :
           \/ fnResponses[i].id = Undefined
           \/ fnResponses[i].id = fnCalls[i].id /\ fnCalls[i].id # Undefined

\* C20: for a history of k functionCall parts followed by k functionResponse
\* parts, each response without an id or with the id of its matching call, after
\* ID threading the i-th response's id is the i-th call's id, and ids that were
\* present are kept.
C20_ResponsesPaired ==
  conv.pc = "threaded" /\ CallsThenResponses(conv.contents) =>
    LET fnCalls == PartsOf(conv.contents, "model", "functionCall")
        fnResponses == PartsOf(conv.contents, "user", "functionResponse")
        callsAfter == PartsOf(conv.threaded, "model", "functionCall")
        responsesAfter == PartsOf(conv.threaded, "user", "functionResponse")
    IN  /\ Len(callsAfter) = Len(fnCalls)
        /\ Len(responsesAfter) = Len(fnResponses)
        /\ \A i \in 1..Len(responsesAfter) :
             /\ responsesAfter[i].id # Undefined
             /\ responsesAfter[i].id = callsAfter[i].id
        /\ \A i \in 1..Len(fnCalls) : fnCalls[i].id # Undefined => callsAfter[i].id = fnCalls[i].id
        /\ \A i \in 1..Len(fnResponses) :
             fnResponses[i].id # Undefined => responsesAfter[i].id = fnResponses[i].id

\* ------------------------------------------------ the thought-signature caches
MaxAdvances == 2
MaxSets == 3

MAX_MODEL_ENTRIES == 16
EntryTtlMs == 30 * 60 * 1000

\* the token manager and the request handlers, idle
Idle ==
  /\ Constructed(CHOOSE f \in StartRows(1) : TRUE, NoRotationCfg)
  /\ currentIndex = 0
  /\ skipProjectIdFetch = TRUE
  /\ started = 0
  /\ events = 0
  /\ hist = <<>>
  /\ retry = NoRetry
  /\ gate = NoGate
  /\ probe = NoProbe
  /\ resp = NoResp
  /\ twin = NoResp
  /\ mem = NoMem

\* the same with the request converter
RestIdle == Idle /\ conv = NoConv

restVars == <<tmVars, budgetVars, hist, retry, gate, probe, resp, twin, mem, conv>>

\* model names and signatures as callers pass them; 0 stands for a falsy one
\* (undefined, null, '')
ModelNames == 0..2
Signatures == 0..2

\* makeModelKey(model): null for a falsy model
MakeModelKey(model) == IF Falsy(model) THEN None ELSE model

\* a Map as the sequence of its [key, value] pairs in insertion order
MapHas(map, key) == \E i \in 1..Len(map) : map[i].key = key
MapGet(map, key) == map[CHOOSE i \in 1..Len(map) : map[i].key = key].value
MapSet(map, key, value) ==
  IF MapHas(map, key)
  THEN [i \in 1..Len(map) |-> IF map[i].key = key THEN [key |-> key, value |-> value] ELSE map[i]]
  ELSE Append(map, [key |-> key, value |-> value])
MapDelete(map, key) == SelectSeq(map, LAMBDA e : e.key # key)

\* a variant of pruneMap that deletes the newest insertions first
PruneMapNewest(map, targetSize) ==
  IF Len(map) <= targetSize THEN map ELSE SubSeq(map, 1, targetSize)

\* pruneMap(map, targetSize): the oldest insertions go first
PruneMap(map, targetSize) ==
  IF Len(map) <= targetSize THEN map
  ELSE SubSeq(map, (Len(map) - targetSize) + 1, Len(map))

\* now - entry.ts > ENTRY_TTL_MS
EntryExpired(entry, t) == t - entry.ts > EntryTtlMs

\* pruneExpired(map, now)
PruneExpired(map, t) == SelectSeq(map, LAMBDA e : ~EntryExpired(e.value, t))

\* getValidSignature that leaves an expired entry in the map
GetValidSignatureKeeping(map, key, t) ==
  IF key = None \/ ~MapHas(map, key) THEN [map |-> map, result |-> None]
  ELSE IF EntryExpired(MapGet(map, key), t)
       THEN [map |-> map, result |-> None]
       ELSE [map |-> map, result |-> MapGet(map, key).signature]

\* getValidSignature(map, key, now): the map as it is left and the value returned
GetValidSignature(map, key, t) ==
  IF key = None \/ ~MapHas(map, key) THEN [map |-> map, result |-> None]
  ELSE IF EntryExpired(MapGet(map, key), t)
       THEN [map |-> MapDelete(map, key), result |-> None]
       ELSE [map |-> map, result |-> MapGet(map, key).signature]

\* setSignature(map, key, signature, maxEntries) at Date.now() = t
SetSignature(map, key, signature, maxEntries, t) ==
  IF key = None \/ Falsy(signature) THEN map
  ELSE PruneMap(MapSet(map, key, [signature |-> signature, ts |-> t]), maxEntries)

Stores == {"reasoning", "tool"}

\* no signature set; no get made
NoSet == [signature |-> None, ts |-> 0]
NoGot == [store |-> "", model |-> 0, result |-> None]

\* the two maps, Date.now(), the sets and clock advances made so far, and for the claims: per store and model the last
\* signature set and when (NoSet once pressure cleanup or pruneMap removed it),
\* and the last get with what it returned
SigInit ==
  /\ RestIdle
  /\ quota = NoQuota
  /\ sigc = [pc |-> "on", maps |-> [s \in Stores |-> <<>>], now |-> EntryTtlMs, advances |-> 0, sets |-> 0,
             lastSet |-> [s \in Stores |-> [k \in ModelNames \ {0} |-> NoSet]],
             got |-> NoGot]

SigQuiet == UNCHANGED <<restVars, quota>>

\* what is left of lastSet when the map of store s has become map2 by eviction
Evicted(s, map2) ==
  [sigc.lastSet EXCEPT ![s] = [k \in ModelNames \ {0} |-> IF MapHas(map2, k) THEN @[k] ELSE NoSet]]

\* setReasoningSignature / setToolSignature (sessionId, model, signature)
SetSignatureCall(s, model, signature) ==
  /\ sigc.sets < MaxSets
  /\ LET key == MakeModelKey(model)
         stored == ~Falsy(signature) /\ ~Falsy(model)
         map2 == IF stored
                 THEN SetSignature(sigc.maps[s], key, signature, MAX_MODEL_ENTRIES, sigc.now)
                 ELSE sigc.maps[s]
         set2 == IF stored
                 THEN [Evicted(s, map2) EXCEPT ![s][key] = [signature |-> signature, ts |-> sigc.now]]
                 ELSE sigc.lastSet
     IN  sigc' = [sigc EXCEPT !.maps[s] = map2, !.lastSet = set2, !.got = NoGot,
                              !.sets = IF stored THEN @ + 1 ELSE @]
  /\ SigQuiet

\* getReasoningSignature / getToolSignature (sessionId, model)
GetSignatureCall(s, model) ==
  /\ LET g == GetValidSignature(sigc.maps[s], MakeModelKey(model), sigc.now)
     IN  sigc' = [sigc EXCEPT !.maps[s] = g.map,
                              !.got = [store |-> s, model |-> model, result |-> g.result]]
  /\ SigQuiet

\* the callback registered with the memory manager
SignatureCleanup(pressure) ==
  /\ LET target == CASE pressure = "medium" -> MAX_MODEL_ENTRIES \div 2
                     [] pressure = "high" -> MAX_MODEL_ENTRIES \div 4
                     [] pressure = "critical" -> 0
         maps2 == [s \in Stores |-> PruneMap(sigc.maps[s], target)]
     IN  sigc' = [sigc EXCEPT !.maps = maps2,
                              !.lastSet = [s \in Stores |->
                                 [k \in ModelNames \ {0} |->
                                    IF MapHas(maps2[s], k) THEN sigc.lastSet[s][k] ELSE NoSet]],
                              !.got = NoGot]
  /\ SigQuiet

\* the setInterval callback: pruneExpired on both maps
CleanTimer ==
  /\ sigc' = [sigc EXCEPT !.maps = [s \in Stores |-> PruneExpired(sigc.maps[s], sigc.now)],
                          !.got = NoGot]
  /\ SigQuiet

\* time passes
ClockAdvances(d) ==
  /\ sigc.advances < MaxAdvances
  /\ sigc' = [sigc EXCEPT !.now = @ + d, !.advances = @ + 1, !.got = NoGot]
  /\ SigQuiet

SigNext ==
  \/ \E s \in Stores, model \in ModelNames, signature \in Signatures :
       SetSignatureCall(s, model, signature)
  \/ \E s \in Stores, model \in ModelNames : GetSignatureCall(s, model)
  \/ \E p \in {"medium", "high", "critical"} : SignatureCleanup(p)
  \/ CleanTimer
  \/ \E d \in {1, EntryTtlMs} : ClockAdvances(d)

SpecSignature == SigInit /\ [][SigNext]_vars

\* C21: in a get of a model whose signature was last set at ts and not evicted
\* since by pressure cleanup or pruning, the get returns that signature while
\* now - ts is below the 30-minute TTL; a get after the TTL (now - ts above it)
\* returns null and leaves the model without an entry in the map.
C21_ReadUntilTtl ==
  sigc.pc = "on" /\ sigc.got # NoGot /\ sigc.got.model # 0
     /\ sigc.lastSet[sigc.got.store][sigc.got.model] # NoSet =>
    LET s == sigc.got.store
        k == sigc.got.model
        set == sigc.lastSet[s][k]
    IN  /\ sigc.now - set.ts < EntryTtlMs =>
             sigc.got.result = set.signature /\ MapHas(sigc.maps[s], k)
        /\ sigc.now - set.ts > EntryTtlMs =>
             sigc.got.result = None /\ ~MapHas(sigc.maps[s], k)

\* a get strictly after the TTL has returned null, and one within it the signature
C21_Witness ==
  /\ sigc.pc = "on" /\ sigc.got # NoGot /\ sigc.got.model # 0
  /\ sigc.lastSet[sigc.got.store][sigc.got.model] # NoSet
  /\ sigc.now - sigc.lastSet[sigc.got.store][sigc.got.model].ts = EntryTtlMs + 1
  /\ sigc.got.result = None
  /\ \E s \in Stores, k \in ModelNames \ {0} :
       /\ sigc.lastSet[s][k] # NoSet
       /\ sigc.now - sigc.lastSet[s][k].ts < EntryTtlMs
       /\ MapHas(sigc.maps[s], k)

\* ------------------------------------------------------------ the quota manager
NumKeys == 2

CacheTtlMs == 5 * 60 * 1000
CleanupIntervalMs == 60 * 60 * 1000

\* the refresh tokens quotas are kept for, and the quotas of a credential as
\* fetched upstream
QuotaKeys == 1..NumKeys
ModelQuotas == 1..2

\* no entry in the Map; what getQuota returns as null
NoRecord == [lastUpdated |-> 0 - 1, models |-> 0]

\* new QuotaManager(): loadFromFile of a file that ensureFileExists created or an
\* earlier run saved at time saved
NewQuotaManager(loaded, saved) ==
  LET quotas == [k \in QuotaKeys |-> IF k \in loaded
                                     THEN [lastUpdated |-> saved, models |-> 1]
                                     ELSE NoRecord]
  IN  [pc |-> "on", cache |-> quotas, file |-> quotas, now |-> CleanupIntervalMs,
       advances |-> 0, got |-> [key |-> 0, result |-> NoRecord]]

QuotaCacheInit ==
  /\ RestIdle
  /\ sigc = NoSigc
  /\ \E loaded \in {{}, {1}}, age \in {0, CacheTtlMs, CleanupIntervalMs} :
       quota = NewQuotaManager(loaded, CleanupIntervalMs - age)

QuotaQuiet == UNCHANGED <<restVars, sigc>>

\* getQuota with >= in place of >
GetQuotaStrict(cache, refreshToken, t) ==
  LET data == cache[refreshToken]
  IN  IF data = NoRecord THEN NoRecord
      ELSE IF t - data.lastUpdated >= CacheTtlMs THEN NoRecord
      ELSE data

\* getQuota(refreshToken) at Date.now() = t
GetQuota(cache, refreshToken, t) ==
  LET data == cache[refreshToken]
  IN  IF data = NoRecord THEN NoRecord
      ELSE IF t - data.lastUpdated > CacheTtlMs THEN NoRecord
      ELSE data

\* updateQuota(refreshToken, quotas), saveToFile included
UpdateQuota(refreshToken, quotas) ==
  /\ LET cache2 == [quota.cache EXCEPT ![refreshToken] =
                      [lastUpdated |-> quota.now, models |-> quotas]]
     IN  quota' = [quota EXCEPT !.cache = cache2, !.file = cache2,
                                !.got = [key |-> 0, result |-> NoRecord]]
  /\ QuotaQuiet

\* a caller reads getQuota(refreshToken)
GetQuotaCall(refreshToken) ==
  /\ quota' = [quota EXCEPT !.got = [key |-> refreshToken,
                                     result |-> GetQuota(quota.cache, refreshToken, quota.now)]]
  /\ QuotaQuiet

\* a variant of cleanup() that never saves
CleanupResultUnsaved(q) ==
  LET cache2 == [k \in QuotaKeys |->
                   IF q.cache[k] # NoRecord /\ q.now - q.cache[k].lastUpdated > CleanupIntervalMs
                   THEN NoRecord ELSE q.cache[k]]
  IN  [q EXCEPT !.cache = cache2, !.got = [key |-> 0, result |-> NoRecord]]

\* cleanup(): the quota manager as it is left
CleanupResult(q) ==
  LET cache2 == [k \in QuotaKeys |->
                   IF q.cache[k] # NoRecord /\ q.now - q.cache[k].lastUpdated > CleanupIntervalMs
                   THEN NoRecord ELSE q.cache[k]]
  IN  [q EXCEPT !.cache = cache2, !.file = IF cache2 # q.cache THEN cache2 ELSE @,
                !.got = [key |-> 0, result |-> NoRecord]]

\* the hourly timer calls cleanup()
CleanupTimer ==
  /\ quota' = CleanupResult(quota)
  /\ QuotaQuiet

\* the callback registered with the memory manager
QuotaMemoryCleanup(pressure) ==
  /\ quota' = CASE pressure = "critical" ->
                     [quota EXCEPT !.cache = [k \in QuotaKeys |-> NoRecord],
                                   !.got = [key |-> 0, result |-> NoRecord]]
                [] pressure = "high" -> CleanupResult(quota)
                [] OTHER -> [quota EXCEPT !.got = [key |-> 0, result |-> NoRecord]]
  /\ QuotaQuiet

\* time passes
QuotaClockAdvances(d) ==
  /\ quota.advances < MaxAdvances
  /\ quota' = [quota EXCEPT !.now = @ + d, !.advances = @ + 1,
                            !.got = [key |-> 0, result |-> NoRecord]]
  /\ QuotaQuiet

QuotaCacheNext ==
  \/ \E k \in QuotaKeys, q \in ModelQuotas : UpdateQuota(k, q)
  \/ \E k \in QuotaKeys : GetQuotaCall(k)
  \/ CleanupTimer
  \/ \E p \in {"medium", "high", "critical"} : QuotaMemoryCleanup(p)
  \/ \E d \in {1, CacheTtlMs, CleanupIntervalMs} : QuotaClockAdvances(d)

SpecQuotaCache == QuotaCacheInit /\ [][QuotaCacheNext]_vars

\* C22 as stated: getQuota returns the stored record only if
\* now - lastUpdated < 5 minutes and null otherwise (now - lastUpdated >= 5
\* minutes, or no record), and a get right after an update returns the record.
C22_FreshBelowTtl ==
  quota.pc = "on" =>
    /\ quota.got.key # 0 =>
         LET data == quota.cache[quota.got.key]
         IN  quota.got.result =
               IF data # NoRecord /\ quota.now - data.lastUpdated < CacheTtlMs
               THEN data ELSE NoRecord
    /\ \A k \in QuotaKeys :
         quota.cache[k] # NoRecord /\ quota.cache[k].lastUpdated = quota.now =>
           GetQuota(quota.cache, k, quota.now) = quota.cache[k]

\* C22 amended: getQuota returns the stored record if and only if there is one
\* and now - lastUpdated <= 5 minutes, null otherwise; a get right after an
\* update returns the record.
C22_FreshUpToTtl ==
  quota.pc = "on" =>
    /\ quota.got.key # 0 =>
         LET data == quota.cache[quota.got.key]
         IN  quota.got.result =
               IF data # NoRecord /\ quota.now - data.lastUpdated <= CacheTtlMs
               THEN data ELSE NoRecord
    /\ \A k \in QuotaKeys :
         quota.cache[k] # NoRecord /\ quota.cache[k].lastUpdated = quota.now =>
           GetQuota(quota.cache, k, quota.now) = quota.cache[k]

\* a get exactly 5 minutes after the update has returned the record
C22_Witness ==
  /\ quota.pc = "on"
  /\ quota.got.key # 0
  /\ quota.cache[quota.got.key] # NoRecord
  /\ quota.now - quota.cache[quota.got.key].lastUpdated = CacheTtlMs
  /\ quota.got.result = quota.cache[quota.got.key]

\* ------------------------------------------------------ the parameter normalizer
DefaultMaxTokens == 32000
DefaultTemperature == 1
DefaultTopP == 85
DefaultTopK == 50
DefaultThinkingBudget == 1024

\* config.defaults; top_p in hundredths
ConfigDefaults ==
  [max_tokens |-> DefaultMaxTokens, temperature |-> DefaultTemperature, top_p |-> DefaultTopP,
   top_k |-> DefaultTopK, thinking_budget |-> DefaultThinkingBudget]

\* a ?? b
Coalesce(a, b) == IF a = Undefined THEN b ELSE a

\* REASONING_EFFORT_MAP[effort]
REASONING_EFFORT_MAP(effort) ==
  CASE effort = "low" -> 1024
    [] effort = "medium" -> 16000
    [] effort = "high" -> 32000
    [] OTHER -> Undefined

\* the four sampling parameters of a normalized object
Sampling(maxTokens, temperature, topP, topK) ==
  [max_tokens |-> Coalesce(maxTokens, ConfigDefaults.max_tokens),
   temperature |-> Coalesce(temperature, ConfigDefaults.temperature),
   top_p |-> Coalesce(topP, ConfigDefaults.top_p),
   top_k |-> Coalesce(topK, ConfigDefaults.top_k)]

\* normalizeOpenAIParameters(params); reasoning_effort is "" when not given
NormalizeOpenAIParameters(params) ==
  [base |-> Sampling(params.max_tokens, params.temperature, params.top_p, params.top_k),
   thinking_budget |->
     IF params.thinking_budget # Undefined THEN params.thinking_budget
     ELSE IF params.reasoning_effort # "" THEN REASONING_EFFORT_MAP(params.reasoning_effort)
     ELSE Undefined]

\* normalizeClaudeParameters that takes no notice of thinking.type = 'disabled'
NormalizeClaudeKeepingThinking(params) ==
  [base |-> Sampling(params.max_tokens, params.temperature, params.top_p, params.top_k),
   thinking_budget |->
     IF params.thinking.type = "enabled" /\ params.thinking.budget_tokens # Undefined
     THEN params.thinking.budget_tokens
     ELSE Undefined]

\* normalizeClaudeParameters(params); thinking.type is "" when thinking is not
\* an object, and the other request fields carry no normalized key
NormalizeClaudeParameters(params) ==
  [base |-> Sampling(params.max_tokens, params.temperature, params.top_p, params.top_k),
   thinking_budget |->
     IF params.thinking.type = "enabled" /\ params.thinking.budget_tokens # Undefined
     THEN params.thinking.budget_tokens
     ELSE IF params.thinking.type = "disabled" THEN 0
     ELSE Undefined]

\* normalizeGeminiParameters(generationConfig); thinkingConfig.present is false
\* when thinkingConfig is not an object, includeThoughts is "true", "false" or ""
NormalizeGeminiParameters(generationConfig) ==
  [base |-> Sampling(generationConfig.maxOutputTokens, generationConfig.temperature,
                     generationConfig.topP, generationConfig.topK),
   thinking_budget |->
     IF ~generationConfig.thinkingConfig.present THEN Undefined
     ELSE IF generationConfig.thinkingConfig.includeThoughts = "false" THEN 0
     ELSE generationConfig.thinkingConfig.thinkingBudget]

\* actualModelName.includes('claude')
ModelIds == {"gemini-2.5-pro", "claude-sonnet-4-5-thinking"}
IncludesClaude(actualModelName) == actualModelName = "claude-sonnet-4-5-thinking"

\* toGenerationConfig with includeThoughts following the enable flag alone
ToGenerationConfigByFlag(normalized, enableThinking, actualModelName) ==
  LET thinkingBudget == IF enableThinking
                        THEN Coalesce(normalized.thinking_budget, ConfigDefaults.thinking_budget)
                        ELSE 0
  IN  [topP |-> IF enableThinking /\ IncludesClaude(actualModelName)
                THEN Undefined ELSE normalized.base.top_p,
       topK |-> normalized.base.top_k, temperature |-> normalized.base.temperature,
       candidateCount |-> 1, maxOutputTokens |-> normalized.base.max_tokens,
       thinkingConfig |-> [includeThoughts |-> enableThinking, thinkingBudget |-> thinkingBudget]]

\* toGenerationConfig(normalized, enableThinking, actualModelName); a deleted topP
\* is Undefined
ToGenerationConfig(normalized, enableThinking, actualModelName) ==
  LET defaultThinkingBudget == ConfigDefaults.thinking_budget
      thinkingBudget == IF enableThinking
                        THEN Coalesce(normalized.thinking_budget, defaultThinkingBudget)
                        ELSE 0
      actualEnableThinking ==
        enableThinking /\ ~(normalized.thinking_budget # Undefined /\ thinkingBudget = 0)
  IN  [topP |-> IF actualEnableThinking /\ IncludesClaude(actualModelName)
                THEN Undefined ELSE normalized.base.top_p,
       topK |-> normalized.base.top_k, temperature |-> normalized.base.temperature,
       candidateCount |-> 1, maxOutputTokens |-> normalized.base.max_tokens,
       thinkingConfig |-> [includeThoughts |-> actualEnableThinking,
                           thinkingBudget |-> thinkingBudget]]

\* what a client means: each sampling parameter given or not, and a thinking
\* budget, thinking disabled ("disabled"), or nothing said about it ("")
Budgets == {0, 1024, 16000}
Intents ==
  [max_tokens : {Undefined, 4096}, temperature : {Undefined, 0}, top_p : {Undefined, 90},
   top_k : {Undefined, 40}, thinking : {"", "disabled", "budget"}, budget : Budgets]

\* the ways of saying an intent on each surface
OpenAIParams(intent) ==
  LET base == [max_tokens |-> intent.max_tokens, temperature |-> intent.temperature,
               top_p |-> intent.top_p, top_k |-> intent.top_k]
      with(tb, effort) == [max_tokens |-> base.max_tokens, temperature |-> base.temperature,
                           top_p |-> base.top_p, top_k |-> base.top_k,
                           thinking_budget |-> tb, reasoning_effort |-> effort]
  IN  CASE intent.thinking = "" -> {with(Undefined, "")}
        [] intent.thinking = "disabled" -> {with(0, ""), with(0, "high")}
        [] OTHER -> {with(intent.budget, ""), with(intent.budget, "high")}
                      \cup {with(Undefined, e) : e \in {e \in {"low", "medium", "high"} :
                                                     REASONING_EFFORT_MAP(e) = intent.budget}}

ClaudeParams(intent) ==
  LET with(type, budgetTokens) == [max_tokens |-> intent.max_tokens, temperature |-> intent.temperature,
                             top_p |-> intent.top_p, top_k |-> intent.top_k,
                             thinking |-> [type |-> type, budget_tokens |-> budgetTokens]]
  IN  CASE intent.thinking = "" -> {with("", Undefined), with("enabled", Undefined)}
        [] intent.thinking = "disabled" -> {with("disabled", Undefined), with("disabled", 1024)}
        [] OTHER -> {with("enabled", intent.budget)}

GeminiParams(intent) ==
  LET with(present, include, tb) ==
        [maxOutputTokens |-> intent.max_tokens, temperature |-> intent.temperature,
         topP |-> intent.top_p, topK |-> intent.top_k,
         thinkingConfig |-> [present |-> present, includeThoughts |-> include,
                             thinkingBudget |-> tb]]
  IN  CASE intent.thinking = "" -> {with(FALSE, "", Undefined), with(TRUE, "true", Undefined)}
        [] intent.thinking = "disabled" -> {with(TRUE, "false", Undefined), with(TRUE, "false", 1024)}
        [] OTHER -> {with(TRUE, "true", intent.budget), with(TRUE, "", intent.budget)}

NoOutcome == [done |-> FALSE]

ParamInit ==
  /\ Idle
  /\ SideOff
  /\ \E intent \in Intents, model \in ModelIds, enableThinking \in BOOLEAN :
       /\ intent.thinking # "budget" => intent.budget = 0
       /\ conv = [pc |-> "params", intent |-> intent, model |-> model,
                  enableThinking |-> enableThinking,
                  out |-> [s \in {"openai", "claude", "gemini"} |-> NoOutcome]]

\* one surface normalizes the parameters it was sent and the request body is
\* built with their projection
Projected(surface, normalized) ==
  /\ conv.pc = "params"
  /\ ~conv.out[surface].done
  /\ conv' = [conv EXCEPT !.out[surface] =
                [done |-> TRUE, normalized |-> normalized,
                 generationConfig |-> ToGenerationConfig(normalized, conv.enableThinking,
                                                         conv.model)]]
  /\ ConvQuiet

OpenAIRequest == \E p \in OpenAIParams(conv.intent) : Projected("openai", NormalizeOpenAIParameters(p))
ClaudeRequest == \E p \in ClaudeParams(conv.intent) : Projected("claude", NormalizeClaudeParameters(p))
GeminiRequest == \E p \in GeminiParams(conv.intent) : Projected("gemini", NormalizeGeminiParameters(p))

ParamNext ==
  \/ OpenAIRequest
  \/ ClaudeRequest
  \/ GeminiRequest

SpecParams == ParamInit /\ [][ParamNext]_vars

ParamSurfaces == {"openai", "claude", "gemini"}

\* C23: projecting a normalized parameter object to the upstream generationConfig
\* gives thinkingConfig.includeThoughts = false if and only if thinking_budget is
\* 0 or thinking is not supported for the model; a thinking_budget of 0 gives
\* false whatever the enable flag.
C23_IncludeThoughts ==
  conv.pc = "params" =>
    \A s \in ParamSurfaces :
      conv.out[s].done =>
        /\ conv.out[s].generationConfig.thinkingConfig.includeThoughts = FALSE
             <=> (conv.out[s].normalized.thinking_budget = 0 \/ ~conv.enableThinking)
        /\ conv.out[s].normalized.thinking_budget = 0
             => conv.out[s].generationConfig.thinkingConfig.includeThoughts = FALSE

\* a budget of 0 has switched thoughts off for a model that supports thinking,
\* and another budget has left them on
C23_Witness ==
  /\ conv.pc = "params"
  /\ conv.enableThinking
  /\ \E s \in ParamSurfaces :
       /\ conv.out[s].done
       /\ conv.out[s].normalized.thinking_budget = 0
       /\ ~conv.out[s].generationConfig.thinkingConfig.includeThoughts
  /\ conv.intent.thinking = "disabled"

\* the generationConfig an intent stands for, for a model and its enable flag
Intended(intent, model, enableThinking) ==
  LET budget == CASE intent.thinking = "" -> ConfigDefaults.thinking_budget
                  [] intent.thinking = "disabled" -> 0
                  [] OTHER -> intent.budget
      thoughts == enableThinking /\ (intent.thinking = "" \/ budget # 0)
  IN  [topP |-> IF thoughts /\ IncludesClaude(model)
                THEN Undefined ELSE Coalesce(intent.top_p, ConfigDefaults.top_p),
       topK |-> Coalesce(intent.top_k, ConfigDefaults.top_k),
       temperature |-> Coalesce(intent.temperature, ConfigDefaults.temperature),
       candidateCount |-> 1,
       maxOutputTokens |-> Coalesce(intent.max_tokens, ConfigDefaults.max_tokens),
       thinkingConfig |-> [includeThoughts |-> thoughts,
                           thinkingBudget |-> IF enableThinking THEN budget ELSE 0]]

\* C24: the same intent (max tokens, temperature, top-p, top-k, and a thinking
\* budget, thinking disabled, or no budget given) sent as OpenAI parameters, as
\* Claude parameters and as a Gemini generationConfig normalizes and projects to
\* the same upstream generationConfig for the same model, topP being left out
\* for claude models with thinking enabled.
C24_SurfacesAgree ==
  conv.pc = "params" =>
    /\ \A s, t \in ParamSurfaces :
         conv.out[s].done /\ conv.out[t].done =>
           conv.out[s].generationConfig = conv.out[t].generationConfig
    /\ \A s \in ParamSurfaces :
         conv.out[s].done =>
           conv.out[s].generationConfig = Intended(conv.intent, conv.model, conv.enableThinking)

\* the three surfaces have projected a budget for a claude model with thinking
\* enabled, topP left out
C24_Witness ==
  /\ conv.pc = "params"
  /\ \A s \in ParamSurfaces : conv.out[s].done
  /\ conv.intent.thinking = "budget" /\ conv.intent.budget = 1024
  /\ conv.intent.top_p # Undefined
  /\ IncludesClaude(conv.model) /\ conv.enableThinking
  /\ conv.out["claude"].generationConfig.topP = Undefined

\* ------------------------------------------------------- the credential store
\* The admin routes and the rotator's own writes on accounts.json: up to
\* MaxStoreOps operations, with one getToken call and one admin refresh that
\* may be suspended at their awaits meanwhile.
MaxStoreOps == 2

\* the request bodies PUT /admin/tokens/:refreshToken is explored with
Patches ==
  {[enable |-> en] : en \in BOOLEAN}
    \cup {[refresh_token |-> rt] : rt \in RTs}
    \cup {[sessionId |-> SomeSession], [hasQuota |-> FALSE]}

\* { ...allTokens[index], ...updates }
Spread(row, updates) ==
  [k \in DOMAIN row |-> IF k \in DOMAIN updates THEN updates[k] ELSE row[k]]

\* updateToken(refreshToken, updates) as PUT /admin/tokens/:refreshToken calls
\* it, with updates = req.body
UpdateTokenWith(rt, updates) ==
  /\ OutsideGuard
  /\ FindIndex(file, rt) # 0
  /\ LET index == FindIndex(file, rt)
         f1 == [file EXCEPT ![index] = Spread(file[index], updates)]
     IN  /\ file' = f1
         /\ Initialize(f1)
  /\ UNCHANGED <<rotationCfg, skipProjectIdFetch, now, calls, running>>

\* getTokenList(): the projection of one row
ListRow(row) ==
  Row(row.refresh_token, row.enable # FALSE, row.hasQuota # FALSE, row.projectId,
      row.timestamp, row.expires_in)

\* POST /admin/tokens/:refreshToken/refresh up to the await inside refreshToken:
\* tokenData is an object of its own, made from the row
AdminRefreshEnter(p, rt) ==
  /\ OutsideGuard
  /\ calls[p].pc = "idle"
  /\ FindIndex(file, rt) # 0
  /\ heap' = Append(heap, ListRow(file[FindIndex(file, rt)]))
  /\ calls' = [calls EXCEPT ![p] = [IdleCall EXCEPT !.pc = "awaitAdminRefresh",
                                                    !.token = Len(heap) + 1]]
  /\ UNCHANGED_CONFIG
  /\ UNCHANGED <<file, tokens, currentIndex, tokenRequestCounts, now, running>>

\* the refresh resolves: tokenData is updated and saved
AdminRefreshOk(p) ==
  /\ OutsideGuard
  /\ calls[p].pc = "awaitAdminRefresh"
  /\ LET id == calls[p].token
         h1 == [heap EXCEPT ![id].expires_in = DefaultExpiresIn, ![id].timestamp = now]
     IN  /\ heap' = h1
         /\ file' = SaveOne(file, h1[id])
  /\ calls' = [calls EXCEPT ![p] = IdleCall]
  /\ UNCHANGED_CONFIG
  /\ UNCHANGED <<tokens, currentIndex, tokenRequestCounts, now, running>>

\* the refresh rejects: the route answers 500
AdminRefreshError(p) ==
  /\ OutsideGuard
  /\ calls[p].pc = "awaitAdminRefresh"
  /\ calls' = [calls EXCEPT ![p] = IdleCall]
  /\ UNCHANGED_CONFIG
  /\ UNCHANGED <<file, heap, tokens, currentIndex, tokenRequestCounts, now, running>>

Caller == 1         \* the getToken call
AdminCaller == 2    \* the admin refresh request

\* accounts.json at start: every row has its project id, and is fresh or stale
StoreInit ==
  /\ \E f \in {g \in StartRows(MaxTokens) :
                  \A k \in 1..MaxTokens : g[k].projectId = SomeProject},
        s \in {ROUND_ROBIN, QUOTA_EXHAUSTED} :
       Constructed(f, [present |-> TRUE, strategy |-> s, requestCount |-> 0])
  /\ skipProjectIdFetch = TRUE
  /\ currentIndex = 0
  /\ started = 0
  /\ events = 0
  /\ hist = <<>>
  /\ FrontOff

\* an operation on the store is counted
StoreOp ==
  /\ events < MaxStoreOps
  /\ events' = events + 1
  /\ UNCHANGED <<started, hist, frontVars>>

\* the getToken call starts
StoreCall ==
  /\ started < 1
  /\ started' = started + 1
  /\ GetTokenEnter(Caller)
  /\ UNCHANGED <<events, hist, frontVars>>

StoreNext ==
  \/ StoreCall
  \/ LoopStep(Caller) /\ Quiet
  \/ RefreshOk(Caller) /\ Quiet
  \/ RefreshFatal(Caller) /\ Quiet
  \/ RefreshOtherError(Caller) /\ Quiet
  \/ ProjectStep(Caller) /\ Quiet
  \/ Commit(Caller) /\ Quiet
  \/ Exhausted(Caller) /\ Quiet
  \/ Consume(Caller) /\ Quiet
  \/ \E rt \in RTs : AdminRefreshEnter(AdminCaller, rt) /\ StoreOp
  \/ AdminRefreshOk(AdminCaller) /\ Quiet
  \/ AdminRefreshError(AdminCaller) /\ Quiet
  \/ \E id \in 1..Len(heap) : DisableTokenCall(id) /\ StoreOp
  \/ \E id \in 1..Len(heap) : MarkQuotaExhausted(id) /\ StoreOp
  \/ \E id \in 1..Len(heap) : RestoreQuota(id) /\ StoreOp
  \/ Reload /\ StoreOp
  \/ \E rt \in RTs, en \in BOOLEAN : AddToken(rt, en, SomeProject) /\ StoreOp
  \/ \E rt \in RTs, updates \in Patches : UpdateTokenWith(rt, updates) /\ StoreOp
  \/ \E rt \in RTs : DeleteToken(rt) /\ StoreOp

SpecStore == StoreInit /\ [][StoreNext]_vars

\* no two elements of a list of credentials share a refresh_token
UniqueRefreshTokens(list) ==
  \A i, j \in 1..Len(list) : i # j => list[i].refresh_token # list[j].refresh_token

\* C25: refresh_token is unique across the store: after any sequence of add,
\* update, delete, refresh and disable operations no two rows of accounts.json
\* and no two credentials of the in-memory pool share a refresh_token.
C25_RefreshTokenUnique ==
  /\ UniqueRefreshTokens(file)
  /\ UniqueRefreshTokens(PoolObjects(heap, tokens))

\* C26: sessionId is never written to disk: after any sequence of refresh,
\* disable, quota marking, add, update and delete operations no row of
\* accounts.json has a sessionId.
C26_SessionIdNotOnDisk ==
  \A k \in 1..Len(file) : file[k].sessionId = NoSession

\* ------------------------------------------- getToken calls in flight together
\* Up to MaxStarts getToken calls interleaved at their awaits, with up to
\* MaxEvents calls of disableToken, markQuotaExhausted or reload between their
\* synchronous sections.
ConcurrentNext ==
  \/ \E p \in Procs : StartCall(p)
  \/ \E p \in Procs : LoopStep(p) /\ Quiet
  \/ \E p \in Procs : RefreshOk(p) /\ Quiet
  \/ \E p \in Procs : RefreshFatal(p) /\ Quiet
  \/ \E p \in Procs : RefreshOtherError(p) /\ Quiet
  \/ \E p \in Procs : ProjectStep(p) /\ Quiet
  \/ \E p \in Procs : ProjectOk(p) /\ Quiet
  \/ \E p \in Procs : ProjectIneligible(p) /\ Quiet
  \/ \E p \in Procs : ProjectError(p) /\ Quiet
  \/ \E p \in Procs : Commit(p) /\ Quiet
  \/ \E p \in Procs : Exhausted(p) /\ Quiet
  \/ \E p \in Procs : Consume(p) /\ Quiet
  \/ \E id \in 1..Len(heap) : DisableTokenCall(id) /\ Event
  \/ \E id \in 1..Len(heap) : MarkQuotaExhausted(id) /\ Event
  \/ Reload /\ Event

SpecConcurrent == Init /\ [][ConcurrentNext]_vars

\* C27: with several getToken calls interleaved at their awaits, possibly with
\* disableToken, markQuotaExhausted or reload, every call completes by returning
\* null or a credential of the current pool (none throws or returns undefined),
\* currentIndex stays in [0, max(N, 1)) and every request counter in
\* [0, requestCountPerToken).
C27_CallsCompleteInRange ==
  /\ \A p \in Procs :
       /\ calls[p].pc # "threw"
       /\ calls[p].pc = "returned" /\ calls[p].ret # None => calls[p].ret \in PoolIds
  /\ currentIndex \in 0..(Max(Len(tokens), 1) - 1)
  /\ \A rt \in RTs : tokenRequestCounts[rt] \in 0..Max(requestCountPerToken - 1, 0)

\* ------------------------------------------------ one caller, failing upstreams
\* MaxTokens credentials, each with or without quota, expired or not, with or
\* without a project id, under round_robin or quota_exhausted.  One caller calls
\* getToken and, between its calls, markQuotaExhausted, in any order; each
\* refresh and each project-id fetch succeeds, fails fatally or fails otherwise;
\* the clock may advance once.
MaxScanOps == 4     \* operations recorded before the last getToken call starts

ScanRows ==
  {f \in [1..MaxTokens -> [refresh_token : 1..MaxTokens, enable : {TRUE},
                           hasQuota : BOOLEAN, projectId : {NoProject, SomeProject},
                           timestamp : {0, Now0}, expires_in : {DefaultExpiresIn},
                           sessionId : {NoSession}]] :
     \A k \in 1..MaxTokens : f[k].refresh_token = k}

ScanInit ==
  /\ \E f \in ScanRows, s \in {ROUND_ROBIN, QUOTA_EXHAUSTED} :
       Constructed(f, [present |-> TRUE, strategy |-> s, requestCount |-> 0])
  /\ currentIndex = 0
  /\ skipProjectIdFetch = FALSE
  /\ started = 0
  /\ events = 0
  /\ hist = <<>>
  /\ FrontOff

\* the scanned credential was passed over after an error that does not disable
Skipped(p) ==
  /\ hist' = Append(hist, [op |-> "skip", rt |-> heap[calls[p].token].refresh_token])
  /\ UNCHANGED <<budgetVars, frontVars>>

\* the scanned credential was disabled by the call
Disabled(p) ==
  /\ hist' = Append(hist, [op |-> "disable", rt |-> heap[calls[p].token].refresh_token])
  /\ UNCHANGED <<budgetVars, frontVars>>

\* the caller takes the result; the result and currentIndex are recorded
ScanRecord(p) ==
  /\ Consume(p)
  /\ hist' = Append(hist, [op |-> Outcome(p).op, rt |-> Outcome(p).rt,
                           currentIndex |-> currentIndex])
  /\ UNCHANGED <<budgetVars, frontVars>>

ScanNext ==
  \/ GetTokenEnter(1) /\ Len(hist) < MaxScanOps /\ Quiet
  \/ LoopStep(1) /\ Quiet
  \/ RefreshOk(1) /\ Quiet
  \/ RefreshFatal(1) /\ Disabled(1)
  \/ RefreshOtherError(1) /\ Skipped(1)
  \/ ProjectStep(1) /\ Quiet
  \/ ProjectOk(1) /\ Quiet
  \/ ProjectIneligible(1) /\ Disabled(1)
  \/ ProjectError(1) /\ Skipped(1)
  \/ Commit(1) /\ Quiet
  \/ Exhausted(1) /\ Quiet
  \/ ScanRecord(1)
  \/ \E id \in 1..Len(heap) :
       MarkRecord(id) /\ calls[1].pc = "idle" /\ Len(hist) < MaxScanOps
  \/ Tick /\ Event

SpecScan == ScanInit /\ [][ScanNext]_vars

\* a credential of the pool still has quota
QuotaLeft == \E id \in PoolIds : heap[id].hasQuota # FALSE

\* the step is the return of a credential by the getToken call
Returns == calls[1].pc # "returned" /\ calls'[1].pc = "returned" /\ calls'[1].ret # None

\* C28: under quota_exhausted, while at least one live credential has
\* hasQuota = true, getToken neither sets a hasQuota flag back to true nor
\* returns a credential whose hasQuota is false.
C28_ResetOnlyWhenAllExhausted ==
  [][(rotationStrategy = QUOTA_EXHAUSTED /\ QuotaLeft) =>
       /\ \A id \in 1..Len(heap) : heap[id].hasQuota = FALSE => heap'[id].hasQuota = FALSE
       /\ Returns => heap'[calls'[1].ret].hasQuota # FALSE]_vars

\* the caller's operations, without what happened inside the calls
CallerOps == SelectSeq(hist, LAMBDA e : e.op \in {"get", "throw", "mark", "disable"})

\* C29: under quota_exhausted two successive getToken calls with no
\* markQuotaExhausted, disableToken or reload between them return the same
\* credential and leave currentIndex the same.
C29_SameUntilMarked ==
  rotationStrategy = QUOTA_EXHAUSTED =>
    \A k \in 1..(Len(CallerOps) - 1) :
      (CallerOps[k].op = "get" /\ CallerOps[k + 1].op = "get") =>
        /\ CallerOps[k + 1].rt = CallerOps[k].rt
        /\ CallerOps[k + 1].currentIndex = CallerOps[k].currentIndex

\* the refresh tokens of the credentials the call in progress passed over
RECURSIVE SkippedInCall(_)
SkippedInCall(h) ==
  IF h = <<>> \/ h[Len(h)].op \in {"get", "throw", "mark"} THEN {}
  ELSE (IF h[Len(h)].op = "skip" THEN {h[Len(h)].rt} ELSE {})
         \cup SkippedInCall(SubSeq(h, 1, Len(h) - 1))

\* the step is a refresh failing with another status than 400/403, or the
\* project-id fetch throwing
Skips == Len(hist') = Len(hist) + 1 /\ hist'[Len(hist')].op = "skip"

\* C30: when a refresh fails with a status other than 400/403, or the project-id
\* fetch throws, the credential stays in the pool with its enable flag unchanged
\* in memory and on disk, the scan continues with the next credential, and the
\* call does not return the credential it passed over.
C30_SkippedLeftAlone ==
  [][/\ Skips =>
          /\ tokens' = tokens
          /\ calls[1].token \in PoolIds
          /\ heap'[calls[1].token].enable = heap[calls[1].token].enable
          /\ \A k \in 1..Len(file) : file'[k].enable = file[k].enable
          /\ Len(file') = Len(file)
          /\ calls'[1].pc = "loop" /\ calls'[1].i = calls[1].i + 1
     /\ (Returns /\ calls'[1].ret \in 1..Len(heap)) =>
          heap[calls'[1].ret].refresh_token \notin SkippedInCall(hist)]_vars

\* ------------------------------------------- a chat request and its credential
\* One request on POST /v1/chat/completions: its single getToken call, then
\* with429Retry around the upstream call, each attempt succeeding or failing
\* with status 429, 500 or none.
NoSnapshot == <<>>

\* the rotator's state: the credentials and their flags in memory and on disk,
\* the pool, currentIndex and the request counters
Snapshot == <<heap, file, tokens, currentIndex, tokenRequestCounts>>

\* a variant in which every attempt takes the rotator's current credential
AttemptTokenCurrent(r) == TokenAt(tokens, currentIndex)

\* the token the closure `() => generateAssistantResponse(requestBody, token, ...)`
\* passes: the handler's const token
AttemptToken(r) == r.token

\* what the upstream requester does to the rotator when a call fails: nothing
\* (the credential is not penalized)
RequesterOnError(error, id) ==
  UNCHANGED <<file, heap, tokens, currentIndex, rotationStrategy, requestCountPerToken,
              tokenRequestCounts, rotationCfg, skipProjectIdFetch, now, calls, running>>

PenaltyInit ==
  /\ \E f \in StartRows(MaxTokens), s \in RotationStrategy :
       Constructed(f, [present |-> TRUE, strategy |-> s, requestCount |-> MaxCount])
  /\ currentIndex = 0
  /\ skipProjectIdFetch = TRUE
  /\ started = 0
  /\ events = 0
  /\ hist = <<>>
  /\ retry = NoRetry
  /\ gate = NoGate
  /\ probe = NoProbe
  /\ \E retryTimes \in {Num(0), Num(2 * MaxRetries)} :
       resp = [pc |-> "idle", retryTimes |-> retryTimes, token |-> None, used |-> <<>>,
               after |-> NoSnapshot]
  /\ twin = NoResp
  /\ mem = NoMem
  /\ conv = NoConv
  /\ SideOff

PenaltyQuiet == UNCHANGED <<budgetVars, hist, gate, probe, twin, mem, conv, sideVars>>

\* the request arrives and its handler calls tokenManager.getToken()
PenaltyRequest ==
  /\ resp.pc = "idle"
  /\ GetTokenEnter(1)
  /\ resp' = [resp EXCEPT !.pc = "token"]
  /\ UNCHANGED retry
  /\ PenaltyQuiet

\* a step of the handler's getToken call
PenaltyTokenStep(A) ==
  /\ resp.pc = "token"
  /\ A
  /\ UNCHANGED <<retry, resp>>
  /\ PenaltyQuiet

\* getToken returned: without a token the handler throws; with one it goes on
PenaltyGotToken ==
  /\ resp.pc = "token"
  /\ Consume(1)
  /\ resp' = IF calls[1].pc = "threw" \/ calls[1].ret = None
             THEN [resp EXCEPT !.pc = "done"]
             ELSE [resp EXCEPT !.pc = "ready", !.token = calls[1].ret, !.after = Snapshot]
  /\ UNCHANGED retry
  /\ PenaltyQuiet

\* the handler calls with429Retry(fn, safeRetries)
PenaltyCallWithRetry ==
  /\ resp.pc = "ready"
  /\ With429Retry(SafeRetries(resp.retryTimes))

\* fn(attempt) is invoked: the upstream call is made with the closure's token
UpstreamCall ==
  /\ resp.pc = "ready"
  /\ retry.pc = "call"
  /\ retry' = [retry EXCEPT !.pc = "await", !.invoked = @ + 1]
  /\ resp' = [resp EXCEPT !.used = Append(@, AttemptToken(resp))]
  /\ UNCHANGED tmVars
  /\ PenaltyQuiet

\* the upstream call resolves: with429Retry returns and the handler answers
UpstreamResolves ==
  /\ resp.pc = "ready"
  /\ retry.pc = "await"
  /\ retry' = [retry EXCEPT !.pc = "returned",
                            !.outcomes = Append(@, [ok |-> TRUE, error |-> NoError])]
  /\ resp' = [resp EXCEPT !.pc = "done"]
  /\ UNCHANGED tmVars
  /\ PenaltyQuiet

\* the upstream call rejects: the catch block of with429Retry retries, or
\* rethrows and the handler answers with the error
UpstreamRejects(error) ==
  /\ resp.pc = "ready"
  /\ retry.pc = "await"
  /\ RequesterOnError(error, resp.token)
  /\ LET out == Append(retry.outcomes, [ok |-> FALSE, error |-> error])
     IN  IF ShouldRetry(ErrStatus(error), retry.attempt, retry.retries)
         THEN /\ retry' = [retry EXCEPT !.pc = "call", !.attempt = @ + 1, !.outcomes = out]
              /\ UNCHANGED resp
         ELSE /\ retry' = [retry EXCEPT !.pc = "threw", !.thrown = error, !.outcomes = out]
              /\ resp' = [resp EXCEPT !.pc = "done"]
  /\ PenaltyQuiet

PenaltyNext ==
  \/ PenaltyRequest
  \/ PenaltyTokenStep(LoopStep(1))
  \/ PenaltyTokenStep(RefreshOk(1))
  \/ PenaltyTokenStep(RefreshFatal(1))
  \/ PenaltyTokenStep(RefreshOtherError(1))
  \/ PenaltyTokenStep(ProjectStep(1))
  \/ PenaltyTokenStep(Commit(1))
  \/ PenaltyTokenStep(Exhausted(1))
  \/ PenaltyGotToken
  \/ PenaltyCallWithRetry
  \/ UpstreamCall
  \/ UpstreamResolves
  \/ \E e \in StreamErrors : UpstreamRejects(e)

SpecPenalty == PenaltyInit /\ [][PenaltyNext]_vars

\* C31: a chat request whose upstream call reports 429, any number of times,
\* leaves every credential's enable and hasQuota flags, the pool, currentIndex
\* and the request counters as they were right after its getToken call, and
\* every attempt uses the credential that call returned.
C31_NotPenalized ==
  (resp.pc \in {"ready", "done"} /\ resp.token # None) =>
    /\ Snapshot = resp.after
    /\ \A k \in 1..Len(resp.used) : resp.used[k] = resp.token

\* every attempt of a request allowed MaxRetries retries was answered 429
C31_Witness ==
  /\ resp.pc = "done"
  /\ retry.pc = "threw"
  /\ Len(resp.used) = MaxRetries + 1
  /\ \A k \in 1..Len(retry.outcomes) : ErrStatus(retry.outcomes[k].error) = 429
  /\ Len(tokens) = MaxTokens

\* ------------------------------------------- Claude streaming: deltas and blocks
NoBlock == [index |-> 0 - 1, type |-> ""]

\* the delta type that belongs to a block type
DeltaOf(type) ==
  CASE type = "thinking" -> "thinking_delta"
    [] type = "text" -> "text_delta"
    [] type = "tool_use" -> "input_json_delta"
    [] OTHER -> ""

\* from event k on, each content_block_delta of w has the index and the delta
\* type of the block open at that point; open is the block last started and
\* not stopped since
RECURSIVE DeltasInside(_, _, _)
DeltasInside(w, k, open) ==
  IF k > Len(w) THEN TRUE
  ELSE LET f == w[k]
       IN  CASE f.ev = "content_block_start" ->
                  DeltasInside(w, k + 1, [index |-> f.index, type |-> f.type])
             [] f.ev = "content_block_stop" -> DeltasInside(w, k + 1, NoBlock)
             [] f.ev = "content_block_delta" ->
                  /\ open # NoBlock
                  /\ f.index = open.index
                  /\ f.type = DeltaOf(open.type)
                  /\ DeltasInside(w, k + 1, open)
             [] OTHER -> DeltasInside(w, k + 1, open)

\* C32: in Claude streaming, for every order of upstream reasoning, content
\* and tool_calls deltas, each content_block_delta is emitted while a block
\* with the same index is open and its delta type matches that block's type.
C32_DeltaInsideItsBlock ==
  (resp.pc # "off" /\ resp.surface = "claude" /\ resp.stream) =>
    DeltasInside(Events(resp.wire), 1, NoBlock)

\* ------------------------------- Claude: one upstream result, streamed and not
\* The same upstream result x answered twice on /v1/messages: resp is the
\* streaming request, whose callback receives x as the deltas reasoning,
\* content, tool_calls; twin is the non-streaming request, which receives x
\* from generateAssistantResponseNoStream.

\* x as the deltas the streaming call delivers
DeltasOfResult(x) ==
  (IF x.reasoning THEN <<[type |-> "reasoning", sig |-> x.sig, bad |-> FALSE]>> ELSE <<>>)
  \o <<[type |-> "content", sig |-> 0, bad |-> FALSE]>>
  \o (IF x.tools > 0 THEN <<[type |-> "tool_calls", sig |-> x.toolSig, bad |-> x.bad]>>
      ELSE <<>>)

MirrorInit ==
  /\ Constructed(<<>>, NoRotationCfg)
  /\ currentIndex = 0
  /\ skipProjectIdFetch = FALSE
  /\ started = 0
  /\ events = 0
  /\ hist = <<>>
  /\ retry = NoRetry
  /\ gate = NoGate
  /\ \E x \in Results : probe = [pc |-> "mirror", x |-> x]
  /\ \E pass \in BOOLEAN :
       /\ resp = [IdleResp(pass, Num(0)) EXCEPT !.pc = "ready", !.surface = "claude",
                                                !.stream = TRUE]
       /\ twin = [IdleResp(pass, Num(0)) EXCEPT !.pc = "ready", !.surface = "claude"]
  /\ mem = NoMem
  /\ conv = NoConv
  /\ SideOff

MirrorQuiet == UNCHANGED <<tmVars, budgetVars, hist, retry, gate, probe, mem, conv, sideVars>>

\* the streaming handler sets the headers, starts the heartbeat and writes
\* message_start
MirrorStart ==
  /\ resp.pc = "ready" /\ ~resp.headersSent
  /\ resp' = Write(CreateHeartbeat(resp),
                   <<Frame("message_start", "", 0, 0, "", 0, 0)>>)
  /\ UNCHANGED twin
  /\ MirrorQuiet

\* the next delta of x arrives at the streaming callback
MirrorDeliver ==
  /\ resp.pc = "ready" /\ resp.headersSent
  /\ Len(resp.arrived) < Len(DeltasOfResult(probe.x))
  /\ resp' = OnData(resp, DeltasOfResult(probe.x)[Len(resp.arrived) + 1])
  /\ UNCHANGED twin
  /\ MirrorQuiet

\* the streaming call resolved: the handler closes the stream
MirrorStreamCompleted ==
  /\ resp.pc = "ready" /\ resp.headersSent
  /\ Len(resp.arrived) = Len(DeltasOfResult(probe.x))
  /\ resp' = Returned(StreamCompleted(resp, PlainResult))
  /\ UNCHANGED twin
  /\ MirrorQuiet

\* the non-streaming call resolved with x: the handler answers
MirrorJsonCompleted ==
  /\ twin.pc = "ready"
  /\ twin' = Returned(JsonCompleted(twin, probe.x))
  /\ UNCHANGED resp
  /\ MirrorQuiet

MirrorNext ==
  \/ MirrorStart
  \/ MirrorDeliver
  \/ MirrorStreamCompleted
  \/ MirrorJsonCompleted

SpecMirror == MirrorInit /\ [][MirrorNext]_vars

\* the types of the blocks a stream started, in order
StreamBlockTypes(wire) ==
  LET starts == SelectSeq(wire, LAMBDA f : f.ev = "content_block_start")
  IN  [k \in 1..Len(starts) |-> starts[k].type]

\* the types of the blocks of a response body, in order
BodyBlockTypes(body) == [k \in 1..Len(body) |-> body[k].type]

\* the order thinking, text, tool_use
BlockRank(type) == CASE type = "thinking" -> 1 [] type = "text" -> 2 [] OTHER -> 3

\* C33: for the same upstream result, the non-streaming Claude response lists
\* its content blocks in the order thinking, text, tool_use and has the same
\* number of blocks, with the same types in the same order, as the stream fed
\* the deltas reasoning, content, tool_calls, also when a tool call's arguments
\* are not valid JSON.
C33_NonStreamMirrorsStream ==
  (resp.pc = "done" /\ twin.pc = "done" /\ probe.pc = "mirror") =>
    /\ \A j, k \in 1..Len(twin.body) :
         j < k => BlockRank(twin.body[j].type) <= BlockRank(twin.body[k].type)
    /\ BodyBlockTypes(twin.body) = StreamBlockTypes(resp.wire)

\* ------------------------------------------------- thought-part stitching
\* processModelThoughts(content, reasoningSignature, toolSignature) on one
\* model message.  A part is a thought part, a text part, a functionCall part
\* or a part with nothing but a thoughtSignature; sig = 0 is no signature; n is
\* the part's position in the input message (0: a part the function made).
MaxStitchParts == 3

\* the cached signatures getSignatureContext returns, 0 when the cache has none
ReasoningSignatures == {0, 8}
ToolSignatures == {0, 9}

ThoughtPart(kind, sig, n) == [kind |-> kind, sig |-> sig, n |-> n]

\* the model messages of a request: the signature a part carries is its position
StitchMessages ==
  UNION {{p \in [1..k -> [kind : {"thought", "text", "functionCall", "signature"},
                          sig : 0..MaxStitchParts, n : 1..MaxStitchParts]] :
            \A i \in 1..k : /\ p[i].n = i
                            /\ p[i].sig \in {0, i}
                            /\ p[i].kind = "signature" => p[i].sig # 0} :
         k \in 0..MaxStitchParts}

\* parts.splice(i, 1)
Splice(parts, i) == [k \in 1..(Len(parts) - 1) |-> IF k < i THEN parts[k] ELSE parts[k + 1]]

\* the last index whose part satisfies Test, 0 when none does
LastIndex(parts, Test(_)) ==
  LET S == {i \in 1..Len(parts) : Test(parts[i])}
  IN  IF S = {} THEN 0 ELSE CHOOSE i \in S : \A j \in S : j <= i

\* part.thought === true && !part.thoughtSignature
UnsignedThought(part) == part.kind = "thought" /\ part.sig = 0

\* part.thoughtSignature && !part.thought
SignedNotThought(part) == part.sig # 0 /\ part.kind # "thought"

\* part.thoughtSignature && !part.thought && !part.functionCall && !part.text
Standalone(part) == part.sig # 0 /\ part.kind = "signature"

\* createThoughtPart(' ', reasoningSignature)
CreateThoughtPart(reasoningSignature) == ThoughtPart("thought", reasoningSignature, 0)

\* the first half of processModelThoughts: merge or add the thought and the
\* signature
MergeThought(parts, reasoningSignature) ==
  LET thoughtIndex == LastIndex(parts, UnsignedThought)
      signatureIndex == LastIndex(parts, SignedNotThought)
  IN  CASE thoughtIndex # 0 /\ signatureIndex # 0 ->
             Splice([parts EXCEPT ![thoughtIndex].sig = parts[signatureIndex].sig],
                    signatureIndex)
        [] thoughtIndex # 0 /\ signatureIndex = 0 ->
             [parts EXCEPT ![thoughtIndex].sig = reasoningSignature]
        [] OTHER -> <<CreateThoughtPart(reasoningSignature)>> \o parts

\* the indices of the standalone signature parts, in order
StandaloneIndices(parts) ==
  LET S == {i \in 1..Len(parts) : Standalone(parts[i])}
      RECURSIVE Sorted(_)
      Sorted(T) == IF T = {} THEN <<>>
                   ELSE LET lo == CHOOSE i \in T : \A j \in T : i <= j
                        IN  <<lo>> \o Sorted(T \ {lo})
  IN  Sorted(S)

\* the second half: functionCall parts without a signature take the
\* standalone signatures in order, then toolSignature; the standalone parts
\* used are removed
FillFunctionCalls(parts, toolSignature) ==
  LET standalone == StandaloneIndices(parts)
      need == {i \in 1..Len(parts) : parts[i].kind = "functionCall" /\ parts[i].sig = 0}
      before(i) == Cardinality({j \in need : j < i})
      sigIndex == IF Cardinality(need) < Len(standalone) THEN Cardinality(need)
                  ELSE Len(standalone)
      filled == [i \in 1..Len(parts) |->
                   IF i \in need
                   THEN [parts[i] EXCEPT !.sig = IF before(i) < Len(standalone)
                                                 THEN parts[standalone[before(i) + 1]].sig
                                                 ELSE toolSignature]
                   ELSE parts[i]]
      used == {standalone[k] : k \in 1..sigIndex}
  IN  SelectSeq([i \in 1..Len(parts) |-> [part |-> filled[i], keep |-> i \notin used]],
                LAMBDA e : e.keep)

ProcessModelThoughts(parts, reasoningSignature, toolSignature) ==
  LET kept == FillFunctionCalls(MergeThought(parts, reasoningSignature), toolSignature)
  IN  [k \in 1..Len(kept) |-> kept[k].part]

StitchInit ==
  /\ \E f \in StartRows(1) : Constructed(f, NoRotationCfg)
  /\ currentIndex = 0
  /\ skipProjectIdFetch = TRUE
  /\ started = 0
  /\ events = 0
  /\ hist = <<>>
  /\ retry = NoRetry
  /\ gate = NoGate
  /\ probe = NoProbe
  /\ resp = NoResp
  /\ twin = NoResp
  /\ mem = NoMem
  /\ SideOff
  /\ \E p \in StitchMessages, rs \in ReasoningSignatures, ts \in ToolSignatures :
       conv = [pc |-> "message", parts |-> p, reasoningSignature |-> rs,
               toolSignature |-> ts]

\* generateGeminiRequestBody calls processModelThoughts on the model message
StitchMessage ==
  /\ conv.pc = "message"
  /\ conv' = [pc |-> "stitched", parts |-> conv.parts,
              reasoningSignature |-> conv.reasoningSignature,
              toolSignature |-> conv.toolSignature,
              out |-> ProcessModelThoughts(conv.parts, conv.reasoningSignature,
                                           conv.toolSignature)]
  /\ ConvQuiet

StitchNext == StitchMessage

SpecStitch == StitchInit /\ [][StitchNext]_vars

\* the message has a thought part
HasThought(parts) == \E i \in 1..Len(parts) : parts[i].kind = "thought"

\* a placeholder carrying the cached reasoning signature is at the head
PlaceholderAtHead(c) ==
  /\ Len(c.out) > 0
  /\ c.out[1] = CreateThoughtPart(c.reasoningSignature)

\* a placeholder is somewhere in the message
HasPlaceholder(out) == \E i \in 1..Len(out) : out[i].n = 0

\* C34: a placeholder thought part carrying the cached reasoning signature is
\* inserted at the head of the message if and only if the message contains no
\* thought part, signed or unsigned.
C34_PlaceholderIffNoThought ==
  conv.pc = "stitched" =>
    /\ ~HasThought(conv.parts) => PlaceholderAtHead(conv)
    /\ HasThought(conv.parts) => ~HasPlaceholder(conv.out)

\* the input positions of the text and functionCall parts of a message, in order
Payload(parts) ==
  LET sel == SelectSeq(parts, LAMBDA p : p.kind \in {"text", "functionCall"})
  IN  [k \in 1..Len(sel) |-> [kind |-> sel[k].kind, n |-> sel[k].n]]

\* the signatures of the standalone signature parts of a message
StandaloneSignatures(parts) == {parts[i].sig : i \in {j \in 1..Len(parts) : Standalone(parts[j])}}

\* the input positions still present in the output
Remaining(out) == {out[i].n : i \in 1..Len(out)}

\* C35: stitching removes only standalone signature parts: every text part and
\* every functionCall part of the input is still present afterwards, in the
\* same relative order, and every functionCall part ends with its own
\* signature, one taken from a standalone part, or the cached tool signature.
C35_OnlyStandaloneRemoved ==
  conv.pc = "stitched" =>
    /\ \A i \in 1..Len(conv.parts) :
         conv.parts[i].n \notin Remaining(conv.out) => Standalone(conv.parts[i])
    /\ Payload(conv.out) = Payload(conv.parts)
    /\ \A i \in 1..Len(conv.out) :
         conv.out[i].kind = "functionCall" =>
           conv.out[i].sig \in
             (StandaloneSignatures(conv.parts)
                \cup {conv.parts[conv.out[i].n].sig, conv.toolSignature}) \ 
             (IF conv.toolSignature = 0 /\ conv.parts[conv.out[i].n].sig # 0 THEN {0} ELSE {})

\* ------------------------------------------- the regulator's cleanup signal
\* the subscribers are registered and the regulator runs: every tick so far
\* was made with these subscribers
Subscribed == mem.pc = "run" /\ mem.cleanupCallbacks # {}

\* C36 as stated: on each tick cleanup(pressure) goes to all subscribers
\* exactly when the tier computed on that tick differs from the tier of the
\* previous tick, carrying the new tier, whichever tier it changes to.
C36_SignalOnTierChange ==
  Subscribed =>
    \A i \in 1..Len(mem.log) :
      LET e == mem.log[i]
      IN  /\ e.was # e.returned => (e.notified = mem.cleanupCallbacks /\ e.signal = e.returned)
          /\ e.was = e.returned => e.notified = {}

\* C36 amended: on each tick cleanup(pressure) goes to all subscribers exactly
\* when the tier computed on that tick is not LOW, changed or not, carrying
\* that tier; a tick whose tier is LOW emits nothing, also when the tier
\* changed to LOW.
C36_SignalOnEveryRaisedTick ==
  Subscribed =>
    \A i \in 1..Len(mem.log) :
      LET e == mem.log[i]
      IN  /\ e.returned # "low" => (e.notified = mem.cleanupCallbacks /\ e.signal = e.returned)
          /\ e.returned = "low" => e.notified = {}

\* a tick with an unchanged tier above LOW was signalled, and a change to LOW
\* was not
C36_Witness ==
  /\ Subscribed
  /\ \E i \in 1..Len(mem.log) :
       /\ mem.log[i].was = mem.log[i].returned
       /\ mem.log[i].returned # "low"
       /\ mem.log[i].notified = mem.cleanupCallbacks
  /\ \E i \in 1..Len(mem.log) :
       /\ mem.log[i].was # "low"
       /\ mem.log[i].returned = "low"
       /\ mem.log[i].notified = {}

\* ------------------------------- the signature caches: size, sessions, stores
\* The two maps as they are after some models' signatures were set, then a few
\* calls by the handlers of different sessions and cleanup signals.
MaxSigOps == 2

SessionIds == {1, 2}

\* the models callers name: none, the oldest and the newest of a full map, a new one
BoundModels == {0, 1, MAX_MODEL_ENTRIES, MAX_MODEL_ENTRIES + 1}

\* a map after session 1 set signature 1 for the models 1..n at time t, in
\* this order
Filled(n, t) == [i \in 1..n |-> [key |-> i, value |-> [signature |-> 1, ts |-> t]]]

\* a variant of the exported functions that keeps one slot per session and model
SignatureKeyPerSession(sessionId, model) ==
  IF Falsy(model) THEN None ELSE (sessionId * (MAX_MODEL_ENTRIES + 2)) + model

\* the key the exported set and get functions use for (sessionId, model)
SignatureKey(sessionId, model) == MakeModelKey(model)

\* no signature of the model is in the map
NoWrite == [sessionId |-> 0, signature |-> None]

\* per model, the session that last set its signature in map and the signature
Written(map) ==
  [k \in BoundModels \ {0} |->
     IF MapHas(map, k) THEN [sessionId |-> 1, signature |-> MapGet(map, k).signature]
     ELSE NoWrite]

NoCall == [op |-> "", sessionId |-> 0, store |-> "", model |-> 0, signature |-> None,
           result |-> None]

\* maps: the two maps; before: the maps before the last call; last: the last
\* call; value: per store and model the signature last set, with the session
\* that set it, NoWrite once the entry was removed
BoundInit ==
  /\ RestIdle
  /\ quota = NoQuota
  /\ \E n \in {0, MAX_MODEL_ENTRIES - 1, MAX_MODEL_ENTRIES}, k \in {0, MAX_MODEL_ENTRIES} :
       LET maps == [s \in Stores |-> IF s = "reasoning" THEN Filled(n, EntryTtlMs)
                                     ELSE Filled(k, EntryTtlMs)]
       IN  sigc = [pc |-> "bound", maps |-> maps, before |-> maps, now |-> EntryTtlMs,
                   ops |-> 0, last |-> NoCall,
                   value |-> [s \in Stores |-> Written(maps[s])]]

\* setReasoningSignature / setToolSignature (sessionId, model, signature)
SetSignatureFor(sessionId, s, model, signature) ==
  /\ sigc.pc = "bound"
  /\ sigc.ops < MaxSigOps
  /\ LET map2 == IF Falsy(signature) \/ Falsy(model) THEN sigc.maps[s]
                 ELSE SetSignature(sigc.maps[s], SignatureKey(sessionId, model), signature,
                                   MAX_MODEL_ENTRIES, sigc.now)
         wrote == [k \in BoundModels \ {0} |->
                     IF k = model /\ map2 # sigc.maps[s]
                     THEN [sessionId |-> sessionId, signature |-> signature]
                     ELSE IF MapHas(map2, MakeModelKey(k)) THEN sigc.value[s][k] ELSE NoWrite]
     IN  sigc' = [sigc EXCEPT !.maps[s] = map2, !.before = sigc.maps, !.ops = @ + 1,
                              !.value[s] = wrote,
                              !.last = [op |-> "set", sessionId |-> sessionId, store |-> s,
                                        model |-> model, signature |-> signature,
                                        result |-> None]]
  /\ SigQuiet

\* getReasoningSignature / getToolSignature (sessionId, model)
GetSignatureFor(sessionId, s, model) ==
  /\ sigc.pc = "bound"
  /\ sigc.ops < MaxSigOps
  /\ LET g == GetValidSignature(sigc.maps[s], SignatureKey(sessionId, model), sigc.now)
     IN  sigc' = [sigc EXCEPT !.maps[s] = g.map, !.before = sigc.maps, !.ops = @ + 1,
                              !.last = [op |-> "get", sessionId |-> sessionId, store |-> s,
                                        model |-> model, signature |-> None,
                                        result |-> g.result]]
  /\ SigQuiet

\* the callback registered with the memory manager
CleanupFor(pressure) ==
  /\ sigc.pc = "bound"
  /\ sigc.ops < MaxSigOps
  /\ LET target == CASE pressure = "medium" -> MAX_MODEL_ENTRIES \div 2
                     [] pressure = "high" -> MAX_MODEL_ENTRIES \div 4
                     [] pressure = "critical" -> 0
         maps2 == [s \in Stores |-> PruneMap(sigc.maps[s], target)]
     IN  sigc' = [sigc EXCEPT !.maps = maps2,
                              !.value = [s \in Stores |-> [k \in BoundModels \ {0} |->
                                           IF MapHas(maps2[s], MakeModelKey(k))
                                           THEN sigc.value[s][k] ELSE NoWrite]],
                              !.before = sigc.maps, !.ops = @ + 1,
                              !.last = [NoCall EXCEPT !.op = pressure]]
  /\ SigQuiet

BoundNext ==
  \/ \E sessionId \in SessionIds, s \in Stores, model \in BoundModels, signature \in Signatures :
       SetSignatureFor(sessionId, s, model, signature)
  \/ \E sessionId \in SessionIds, s \in Stores, model \in BoundModels :
       GetSignatureFor(sessionId, s, model)
  \/ \E p \in {"medium", "high", "critical"} : CleanupFor(p)

SpecSigBound == BoundInit /\ [][BoundNext]_vars

\* the last call stored a signature
Stored == sigc.last.op = "set" /\ ~Falsy(sigc.last.signature) /\ ~Falsy(sigc.last.model)

\* C37: each signature map holds at most 16 entries after any sequence of set
\* operations, the entry that was just set is never the one pruned, and a
\* memory-pressure cleanup shrinks each map to at most 8 entries on MEDIUM, at
\* most 4 on HIGH and 0 on CRITICAL.
C37_MapsBounded ==
  sigc.pc = "bound" =>
    /\ \A s \in Stores : Len(sigc.maps[s]) <= MAX_MODEL_ENTRIES
    /\ Stored =>
         LET map == sigc.maps[sigc.last.store]
             key == SignatureKey(sigc.last.sessionId, sigc.last.model)
         IN  MapHas(map, key) /\ MapGet(map, key).signature = sigc.last.signature
    /\ sigc.last.op = "medium" => \A s \in Stores : Len(sigc.maps[s]) <= 8
    /\ sigc.last.op = "high" => \A s \in Stores : Len(sigc.maps[s]) <= 4
    /\ sigc.last.op = "critical" => \A s \in Stores : Len(sigc.maps[s]) = 0

\* a new model was set on a full map, which pruned its oldest entry
C37_Witness ==
  /\ sigc.pc = "bound"
  /\ Stored
  /\ Len(sigc.before[sigc.last.store]) = MAX_MODEL_ENTRIES
  /\ ~MapHas(sigc.before[sigc.last.store], sigc.last.model)
  /\ Len(sigc.maps[sigc.last.store]) = MAX_MODEL_ENTRIES
  /\ ~MapHas(sigc.maps[sigc.last.store], 1)

\* the other map
OtherStore(s) == IF s = "reasoning" THEN "tool" ELSE "reasoning"

\* C38: the signature caches are keyed by model alone: a get for a model
\* returns the signature last set for it, under whichever sessionId it was set
\* and whichever sessionId asks, so a set under any session replaces the value
\* every session reads; a set on one map never changes the other map.
C38_KeyedByModelAlone ==
  sigc.pc = "bound" =>
    /\ (sigc.last.op = "get" /\ ~Falsy(sigc.last.model)) =>
         sigc.last.result = sigc.value[sigc.last.store][sigc.last.model].signature
    /\ sigc.last.op \in {"set", "get"} =>
         sigc.maps[OtherStore(sigc.last.store)] = sigc.before[OtherStore(sigc.last.store)]

\* session 1 reads the signature session 2 has just set over session 1's own,
\* and the other map still holds its entries
C38_Witness ==
  /\ sigc.pc = "bound"
  /\ sigc.last.op = "get"
  /\ sigc.last.sessionId = 1
  /\ sigc.last.model = 1
  /\ sigc.value[sigc.last.store][1] = [sessionId |-> 2, signature |-> 2]
  /\ sigc.last.result = 2
  /\ Len(sigc.maps[OtherStore(sigc.last.store)]) = MAX_MODEL_ENTRIES

\* ------------------------------- the quota cache: the sweep and the signals
\* the callback registered with the memory manager: the quota manager as it
\* is left
MemoryCleanupResult(q, pressure) ==
  CASE pressure = "critical" ->
         [q EXCEPT !.cache = [k \in QuotaKeys |-> NoRecord],
                   !.got = [key |-> 0, result |-> NoRecord]]
    [] pressure = "high" -> CleanupResult(q)
    [] OTHER -> [q EXCEPT !.got = [key |-> 0, result |-> NoRecord]]

\* the quota manager with the last sweep or signal (last) and the cache and
\* the file as they were before it
SweepInit ==
  /\ RestIdle
  /\ sigc = NoSigc
  /\ \E loaded \in SUBSET QuotaKeys, age \in {0, CacheTtlMs, CleanupIntervalMs} :
       LET q == NewQuotaManager(loaded, CleanupIntervalMs - age)
       IN  quota = [pc |-> "sweep", cache |-> q.cache, file |-> q.file, now |-> q.now,
                    advances |-> 0, got |-> q.got, last |-> "",
                    before |-> [cache |-> q.cache, file |-> q.file]]

Seen(q) == [cache |-> q.cache, file |-> q.file]

\* the hourly timer calls cleanup()
SweepTimer ==
  /\ quota.pc = "sweep"
  /\ quota' = [CleanupResult(quota) EXCEPT !.last = "sweep", !.before = Seen(quota)]
  /\ QuotaQuiet

\* the memory manager calls the callback with pressure
SweepSignal(pressure) ==
  /\ quota.pc = "sweep"
  /\ quota' = [MemoryCleanupResult(quota, pressure) EXCEPT !.last = pressure,
                                                           !.before = Seen(quota)]
  /\ QuotaQuiet

\* updateQuota(refreshToken, quotas), saveToFile included
SweepUpdate(refreshToken, quotas) ==
  /\ quota.pc = "sweep"
  /\ LET cache2 == [quota.cache EXCEPT ![refreshToken] =
                      [lastUpdated |-> quota.now, models |-> quotas]]
     IN  quota' = [quota EXCEPT !.cache = cache2, !.file = cache2, !.last = "",
                                !.before = Seen(quota),
                                !.got = [key |-> 0, result |-> NoRecord]]
  /\ QuotaQuiet

\* time passes
SweepClockAdvances(d) ==
  /\ quota.pc = "sweep"
  /\ quota.advances < MaxAdvances
  /\ quota' = [quota EXCEPT !.now = @ + d, !.advances = @ + 1, !.last = "",
                            !.before = Seen(quota),
                            !.got = [key |-> 0, result |-> NoRecord]]
  /\ QuotaQuiet

SweepNext ==
  \/ SweepTimer
  \/ \E p \in Pressures : SweepSignal(p)
  \/ \E k \in QuotaKeys, q \in ModelQuotas : SweepUpdate(k, q)
  \/ \E d \in {1, CacheTtlMs, CleanupIntervalMs} : SweepClockAdvances(d)

SpecQuotaSweep == SweepInit /\ [][SweepNext]_vars

\* the entries the last sweep or signal removed
Dropped == {k \in QuotaKeys : quota.before.cache[k] # NoRecord /\ quota.cache[k] = NoRecord}

\* C39: the sweep and a HIGH cleanup signal drop every entry older than 1 hour
\* and keep every younger entry, persisting when something was dropped; a
\* CRITICAL cleanup signal empties the map; LOW and MEDIUM signals leave the
\* map unchanged.
C39_SweepAndSignals ==
  quota.pc = "sweep" =>
    /\ quota.last \in {"sweep", "high"} =>
         /\ \A k \in QuotaKeys :
              LET data == quota.before.cache[k]
              IN  /\ (data # NoRecord /\ quota.now - data.lastUpdated > CleanupIntervalMs) =>
                       quota.cache[k] = NoRecord
                  /\ (data # NoRecord /\ quota.now - data.lastUpdated < CleanupIntervalMs) =>
                       quota.cache[k] = data
                  /\ data = NoRecord => quota.cache[k] = NoRecord
         /\ Dropped # {} => quota.file = quota.cache
         /\ Dropped = {} => quota.file = quota.before.file
    /\ quota.last = "critical" => \A k \in QuotaKeys : quota.cache[k] = NoRecord
    /\ quota.last \in {"low", "medium"} => quota.cache = quota.before.cache

\* the sweep dropped an entry older than 1 hour, kept a younger one and saved
C39_Witness ==
  /\ quota.pc = "sweep"
  /\ quota.last = "sweep"
  /\ Dropped # {}
  /\ \E k \in QuotaKeys : quota.cache[k] # NoRecord
  /\ quota.file = quota.cache
  /\ quota.before.file # quota.file

\* ------------------------------------------------- the admin login rate limit
MaxLogins == 3
MaxLoginAdvances == 2

MAX_LOGIN_ATTEMPTS == 5
BLOCK_DURATION == 5 * 60 * 1000
ATTEMPT_WINDOW == 15 * 60 * 1000

ClientIPs == {1, 2}

\* the request bodies: the admin's credentials, other credentials, or a body
\* without a username or password
LoginBodies == {"correct", "wrong", "invalid"}

\* no entry in loginAttempts; blockedUntil = 0 is a record without the field
NoAttempt == [count |-> 0, lastAttempt |-> 0, blockedUntil |-> 0]

\* a variant of checkLoginRateLimit that never refuses
CheckLoginRateLimitOpen(attempts, ip, t) == [allowed |-> TRUE, attempts |-> attempts]

\* checkLoginRateLimit(ip) at Date.now() = t: the answer and the map as it is left
CheckLoginRateLimit(attempts, ip, t) ==
  LET attempt == attempts[ip]
  IN  IF attempt = NoAttempt THEN [allowed |-> TRUE, attempts |-> attempts]
      ELSE IF attempt.blockedUntil # 0 /\ t < attempt.blockedUntil
      THEN [allowed |-> FALSE, attempts |-> attempts]
      ELSE IF t - attempt.lastAttempt > ATTEMPT_WINDOW
      THEN [allowed |-> TRUE, attempts |-> [attempts EXCEPT ![ip] = NoAttempt]]
      ELSE [allowed |-> TRUE, attempts |-> attempts]

\* recordLoginAttempt(ip, success) at Date.now() = t: the map as it is left
RecordLoginAttempt(attempts, ip, success, t) ==
  IF success THEN [attempts EXCEPT ![ip] = NoAttempt]
  ELSE LET count == attempts[ip].count + 1
       IN  [attempts EXCEPT ![ip] =
              [count |-> count, lastAttempt |-> t,
               blockedUntil |-> IF count >= MAX_LOGIN_ATTEMPTS THEN t + BLOCK_DURATION
                                ELSE attempts[ip].blockedUntil]]

\* the failures of one client as the claim counts them: the length of the run
\* of failed logins each within the window of the one before and with no
\* success between, the time of the last one, and the time and the number of
\* the request that was the fifth
NoStreak == [count |-> 0, last |-> 0, fifthAt |-> 0, fifthN |-> 0]

Failures(streak, t, n) ==
  LET count == IF streak.count > 0 /\ t - streak.last <= ATTEMPT_WINDOW
               THEN streak.count + 1 ELSE 1
  IN  IF count = MAX_LOGIN_ATTEMPTS
      THEN [count |-> count, last |-> t, fifthAt |-> t, fifthN |-> n]
      ELSE [streak EXCEPT !.count = count, !.last = t,
                          !.fifthAt = IF count < MAX_LOGIN_ATTEMPTS THEN 0 ELSE @,
                          !.fifthN = IF count < MAX_LOGIN_ATTEMPTS THEN 0 ELSE @]

NoLogin == [ip |-> 0, body |-> "", status |-> 0, at |-> 0, n |-> 0]

\* the server after client 1 failed c times in a row, the last time just now
LoginInit ==
  /\ Constructed(CHOOSE f \in StartRows(1) : TRUE, NoRotationCfg)
  /\ currentIndex = 0
  /\ skipProjectIdFetch = TRUE
  /\ started = 0
  /\ events = 0
  /\ hist = <<>>
  /\ retry = NoRetry
  /\ gate = NoGate
  /\ BackOff
  /\ \E c \in {0, MAX_LOGIN_ATTEMPTS - 2, MAX_LOGIN_ATTEMPTS - 1} :
       probe = [pc |-> "login", now |-> ATTEMPT_WINDOW, advances |-> 0, logins |-> 0,
                loginAttempts |-> [ip \in ClientIPs |->
                   IF ip = 1 /\ c > 0
                   THEN [count |-> c, lastAttempt |-> ATTEMPT_WINDOW, blockedUntil |-> 0]
                   ELSE NoAttempt],
                streak |-> [ip \in ClientIPs |->
                   IF ip = 1 /\ c > 0
                   THEN [NoStreak EXCEPT !.count = c, !.last = ATTEMPT_WINDOW]
                   ELSE NoStreak],
                last |-> NoLogin]

LoginQuiet == UNCHANGED <<tmVars, budgetVars, hist, retry, gate, backVars>>

\* POST /login from ip with body
Login(ip, body) ==
  /\ probe.pc = "login"
  /\ probe.logins < MaxLogins
  /\ LET n == probe.logins + 1
         rateCheck == CheckLoginRateLimit(probe.loginAttempts, ip, probe.now)
         status == IF ~rateCheck.allowed THEN 429
                   ELSE IF body = "invalid" THEN 400
                   ELSE IF body = "correct" THEN 200 ELSE 401
         attempts2 == IF status \in {200, 401}
                      THEN RecordLoginAttempt(rateCheck.attempts, ip, status = 200, probe.now)
                      ELSE rateCheck.attempts
         streak2 == CASE status = 401 -> Failures(probe.streak[ip], probe.now, n)
                      [] status = 200 -> NoStreak
                      [] OTHER -> probe.streak[ip]
     IN  probe' = [probe EXCEPT !.logins = n, !.loginAttempts = attempts2,
                                !.streak[ip] = streak2,
                                !.last = [ip |-> ip, body |-> body, status |-> status,
                                          at |-> probe.now, n |-> n]]
  /\ LoginQuiet

\* time passes
LoginClockAdvances(d) ==
  /\ probe.pc = "login"
  /\ probe.advances < MaxLoginAdvances
  /\ probe' = [probe EXCEPT !.now = @ + d, !.advances = @ + 1, !.last = NoLogin]
  /\ LoginQuiet

LoginNext ==
  \/ \E ip \in ClientIPs, body \in LoginBodies : Login(ip, body)
  \/ \E d \in {1, BLOCK_DURATION - 1, ATTEMPT_WINDOW, ATTEMPT_WINDOW + 1} :
       LoginClockAdvances(d)

SpecLogin == LoginInit /\ [][LoginNext]_vars

\* the client's fifth failure in a row is on record and the block it started
\* has not run out at time t
InBlock(ip, t) ==
  /\ probe.streak[ip].fifthN # 0
  /\ t < probe.streak[ip].fifthAt + BLOCK_DURATION

\* C40: after five failed login attempts from one client IP, each within 15
\* minutes of the previous one and with no successful login between them,
\* every login request from that IP is rejected with 429, even with correct
\* credentials, until 5 minutes after the fifth failure; a rejected request
\* does not itself extend the block.
C40_BlockedAfterFiveFailures ==
  probe.pc = "login" =>
    /\ (probe.last # NoLogin /\ InBlock(probe.last.ip, probe.last.at)
          /\ probe.last.n > probe.streak[probe.last.ip].fifthN) => probe.last.status = 429
    /\ \A ip \in ClientIPs :
         InBlock(ip, probe.now) =>
           probe.loginAttempts[ip].blockedUntil = probe.streak[ip].fifthAt + BLOCK_DURATION
    /\ (probe.last # NoLogin /\ probe.streak[probe.last.ip].fifthN # 0
          /\ probe.streak[probe.last.ip].count = MAX_LOGIN_ATTEMPTS
          /\ probe.last.at >= probe.streak[probe.last.ip].fifthAt + BLOCK_DURATION) =>
         probe.last.status # 429

\* the admin's own credentials were refused during the block, one millisecond
\* before its end and after an earlier refusal
C40_Witness ==
  /\ probe.pc = "login"
  /\ probe.last.body = "correct"
  /\ probe.last.status = 429
  /\ probe.last.n = probe.streak[probe.last.ip].fifthN + 2
  /\ probe.last.at = (probe.streak[probe.last.ip].fifthAt + BLOCK_DURATION) - 1

====
